---- MODULE Spec2Model ----
(***************************************************************************)
(* Dual-backend data-access layer (db-adapter.js, db.js, postgres.js) and  *)
(* the operational-data reset script (reset-operational-data.js).          *)
(*                                                                         *)
(* Spec        one process running resetOperationalData, statement by      *)
(*             statement, against a database engine with transactions.     *)
(* SpecFacade  the query facade applied to the same neutral statement on   *)
(*             a PostgreSQL and on a SQLite database holding the same data.*)
(***************************************************************************)
EXTENDS Naturals, Sequences, FiniteSets, TLC

(***************************************************************************)
(* Bounds of the model.                                                    *)
(***************************************************************************)
\* rows a populated operational table holds at most
MaxRows == 2
\* resetOperationalData invocations made in succession by one process
MaxInvocations == 2
\* statements one facade run sends in succession
MaxCalls == 2

(***************************************************************************)
(* Optional values: null is the empty set, a value v is {v}.               *)
(***************************************************************************)
None == {}

Some(v) == {v}

\* JS `v || null` on an optional number: 0, undefined and null give null
OrNull(o) == IF o = {0} THEN None ELSE o

\* JS `n || 0` on an optional number
OrZero(o) == IF o = None THEN 0 ELSE CHOOSE v \in o : TRUE

Range(s) == {s[k] : k \in 1..Len(s)}

RECURSIVE SumSeq(_)
SumSeq(s) == IF s = <<>> THEN 0 ELSE Head(s) + SumSeq(Tail(s))

(***************************************************************************)
(* Schema.                                                                 *)
(***************************************************************************)
TABLES_TO_CLEAN ==
  << "km_historico", "abastecimentos", "manutencoes", "ocr_usage",
     "veiculo_compartilhamentos", "proprietarios_historico",
     "proprietarios", "veiculos" >>

MasterTables == {"fabricantes", "modelos", "anos_modelo"}

UsersTable == "usuarios"

AllTables == Range(TABLES_TO_CLEAN) \cup MasterTables \cup {UsersTable}

AdminRole == "admin"

AdminEmail == "admin@troia.com"

\* a row: its primary key and, for user accounts, role and email
Row(k, role, email) == [id |-> k, role |-> role, email |-> email]

PlainRows(n) == {Row(k, "-", "-") : k \in 1..n}

(***************************************************************************)
(* SQL text as a sequence of tokens, and the string operations the facade  *)
(* applies to it.                                                          *)
(***************************************************************************)
IsSpace(tok) == tok \in {" ", "\n"}

\* String.prototype.toUpperCase on the tokens the model uses
Upper(tok) ==
  CASE tok = "insert" -> "INSERT"
    [] tok = "Insert" -> "INSERT"
    [] tok = "select" -> "SELECT"
    [] tok = "returning" -> "RETURNING"
    [] tok = "with" -> "WITH"
    [] OTHER -> tok

UpperText(text) == [k \in 1..Len(text) |-> Upper(text[k])]

RECURSIVE TrimLeft(_)
TrimLeft(text) ==
  IF text # <<>> /\ IsSpace(Head(text)) THEN TrimLeft(Tail(text)) ELSE text

RECURSIVE TrimRight(_)
TrimRight(text) ==
  IF text # <<>> /\ IsSpace(text[Len(text)])
  THEN TrimRight(SubSeq(text, 1, Len(text) - 1))
  ELSE text

\* String.prototype.trim
Trim(text) == TrimRight(TrimLeft(text))

\* String.prototype.startsWith, for a keyword
StartsWith(text, kw) == text # <<>> /\ Head(text) = kw

\* String.prototype.includes, for a keyword (case-sensitive)
Includes(text, kw) == \E k \in 1..Len(text) : text[k] = kw

\* sql.replace(/;?\s*$/, ''): trailing white space goes, then one ';'
StripTerminator(text) ==
  LET t == TrimRight(text)
  IN IF t # <<>> /\ t[Len(t)] = ";" THEN SubSeq(t, 1, Len(t) - 1) ELSE t

\* number of '?' among the first k tokens
RECURSIVE CountPlaceholders(_, _)
CountPlaceholders(text, k) ==
  IF k = 0 THEN 0
  ELSE CountPlaceholders(text, k - 1) + (IF text[k] = "?" THEN 1 ELSE 0)


(***************************************************************************)
(* A statement: its SQL text and what the text means to an engine.         *)
(*   op     SELECT, INSERT, UPDATE, DELETE, COUNT, BEGIN, COMMIT, ROLLBACK,*)
(*          EXISTS (SELECT EXISTS over information_schema.tables: one row  *)
(*          with a boolean) or CATALOG (SELECT name FROM sqlite_master:    *)
(*          one row if the table exists, none otherwise)                   *)
(*   table  the table it reads or writes                                   *)
(*   where  the rows it applies to: all, nonadmin, one, none               *)
(*   withId whether a SELECT projects the id column                        *)
(*   n      the rows an INSERT inserts                                     *)
(*   params the parameter array of the call: one value per '?' of the text *)
(* A RETURNING clause is read from the text, since the facade edits it.    *)
(***************************************************************************)
ParamValue(k) == "p" \o ToString(k)

ParamsOf(text) ==
  [k \in 1..CountPlaceholders(text, Len(text)) |-> ParamValue(k)]

Stmt(text, op, table, where, withId, n) ==
  [text |-> text, op |-> op, table |-> table, where |-> where,
   withId |-> withId, n |-> n, params |-> ParamsOf(text)]

\* what reaches a driver: the native text and the parameter array
Native(st) == [text |-> st.text, params |-> st.params]

Matches(where, row) ==
  CASE where = "all" -> TRUE
    [] where = "nonadmin" -> row.role # AdminRole /\ row.email # AdminEmail
    [] where = "one" -> row.id = 1
    [] OTHER -> FALSE

\* a result row: the id column when projected, a count, a boolean column
ResultRow(id, key, flag) == [id |-> id, key |-> key, flag |-> flag]

RECURSIVE SortedIds(_)
SortedIds(S) ==
  IF S = {} THEN <<>>
  ELSE LET m == CHOOSE x \in S : \A y \in S : x <= y
       IN <<m>> \o SortedIds(S \ {m})

\* rows of the given ids, in id order, with or without the id column
RowsOf(ids, withId) ==
  LET s == SortedIds(ids)
  IN [k \in 1..Len(s) |->
        ResultRow(IF withId THEN Some(s[k]) ELSE None, s[k], TRUE)]

\* RETURNING clauses in the text, as the SQL parser sees them
ReturningClauses(text) ==
  Cardinality({k \in 1..Len(text) : Upper(text[k]) = "RETURNING"})

(***************************************************************************)
(* The effect of one statement on the data a connection sees.              *)
(* data = [exists, rows, seq]; seq[t] is the last key generated for t.     *)
(* The answer holds the new data, the result rows, the affected-row count  *)
(* (None for a statement that affects no rows by nature) and, for an       *)
(* INSERT, the keys generated.                                             *)
(***************************************************************************)
EngineFail(data) ==
  [ok |-> FALSE, data |-> data, rows |-> <<>>, affected |-> None,
   newIds |-> {}]

EngineAnswer(data, rows, affected, newIds) ==
  [ok |-> TRUE, data |-> data, rows |-> rows, affected |-> affected,
   newIds |-> newIds]

\* rows a write returns: those of its RETURNING clause, if it has one
Returned(text, ids) ==
  IF ReturningClauses(text) = 1 THEN RowsOf(ids, TRUE) ELSE <<>>

Hit(data, st) == {r \in data.rows[st.table] : Matches(st.where, r)}

IdsOf(rows) == {r.id : r \in rows}

NewIds(data, st) == (data.seq[st.table] + 1)..(data.seq[st.table] + st.n)

Inserted(data, st) ==
  [data EXCEPT
     !.rows[st.table] = @ \cup {Row(k, "-", "-") : k \in NewIds(data, st)},
     !.seq[st.table] = @ + st.n]

EngineExec(data, st) ==
  IF ReturningClauses(st.text) > 1 THEN EngineFail(data)
  ELSE IF st.op \in {"BEGIN", "COMMIT", "ROLLBACK"}
  THEN EngineAnswer(data, <<>>, None, {})
  ELSE IF st.op = "EXISTS"
  THEN EngineAnswer(data, <<ResultRow(None, 0, data.exists[st.table])>>,
                    Some(1), {})
  ELSE IF st.op = "CATALOG"
  THEN EngineAnswer(data,
                    IF data.exists[st.table]
                    THEN <<ResultRow(None, 0, TRUE)>> ELSE <<>>,
                    Some(IF data.exists[st.table] THEN 1 ELSE 0), {})
  ELSE IF ~data.exists[st.table] THEN EngineFail(data)
  ELSE IF st.op = "COUNT"
  THEN EngineAnswer(data,
                    <<ResultRow(None, Cardinality(data.rows[st.table]), TRUE)>>,
                    Some(1), {})
  ELSE IF st.op = "SELECT"
  THEN EngineAnswer(data, RowsOf(IdsOf(Hit(data, st)), st.withId),
                    Some(Cardinality(Hit(data, st))), {})
  ELSE IF st.op = "INSERT"
  THEN EngineAnswer(Inserted(data, st), Returned(st.text, NewIds(data, st)),
                    Some(st.n), NewIds(data, st))
  ELSE IF st.op = "DELETE"
  THEN EngineAnswer([data EXCEPT !.rows[st.table] = @ \ Hit(data, st)],
                    Returned(st.text, IdsOf(Hit(data, st))),
                    Some(Cardinality(Hit(data, st))), {})
  ELSE \* UPDATE: the rows keep their keys
       EngineAnswer(data, Returned(st.text, IdsOf(Hit(data, st))),
                    Some(Cardinality(Hit(data, st))), {})

(***************************************************************************)
(* node-postgres: pool.query / client.query answer {rows, rowCount};       *)
(* rowCount is null for a statement without a row count.                   *)
(***************************************************************************)
PgAnswer(st, e) ==
  [ok |-> e.ok, data |-> e.data, rows |-> e.rows, rowCount |-> e.affected,
   sent |-> <<Native(st)>>]

PgDriver(data, st) == PgAnswer(st, EngineExec(data, st))

(***************************************************************************)
(* node-sqlite3: db.all answers the result rows; db.run answers this.lastID*)
(* and this.changes, which the connection keeps from its last INSERT and   *)
(* its last INSERT/UPDATE/DELETE. meta = [lastID, changes].                *)
(***************************************************************************)
MaxOf(S) == CHOOSE x \in S : \A y \in S : y <= x

SqliteMeta(meta, st, e) ==
  IF ~e.ok THEN meta
  ELSE [lastID |-> IF e.newIds = {} THEN meta.lastID ELSE MaxOf(e.newIds),
        changes |-> IF st.op \in {"INSERT", "UPDATE", "DELETE"}
                    THEN OrZero(e.affected) ELSE meta.changes]

SqliteAnswer(meta, st, e) ==
  [ok |-> e.ok, data |-> e.data, rows |-> e.rows,
   meta |-> SqliteMeta(meta, st, e), sent |-> <<Native(st)>>]

SqliteDriver(data, meta, st) == SqliteAnswer(meta, st, EngineExec(data, st))

(***************************************************************************)
(* The facade (db-adapter.js, db.js).                                      *)
(***************************************************************************)
\* placeholders numbered from 0
DollarFromZero(k) == "$" \o ToString(k - 1)

\* `$${paramIndex++}`
Dollar(k) == "$" \o ToString(k)

\* convertParams hands the parameter array on as it got it
ConvertedParams(isPg, params) == params

\* convertParams: on PostgreSQL the k-th '?' becomes $k
ConvertParams(isPg, text) ==
  IF isPg
  THEN [k \in 1..Len(text) |->
          IF text[k] = "?" THEN Dollar(CountPlaceholders(text, k))
          ELSE text[k]]
  ELSE text

\* an INSERT without RETURNING gets ' RETURNING id' before its terminator
AddReturning(text) ==
  IF StartsWith(UpperText(Trim(text)), "INSERT") /\ ~Includes(text, "RETURNING")
  THEN StripTerminator(text) \o <<" ", "RETURNING", " ", "id">>
  ELSE text

\* the text query sends to PostgreSQL
PgFinalText(text) == AddReturning(ConvertParams(TRUE, text))

\* rows[0]?.id, undefined when there is no first row or no id column
FirstRowId(rows) == IF rows = <<>> THEN None ELSE rows[1].id

Normalized(rows, rowCount, insertId) ==
  [rows |-> rows, rowCount |-> rowCount, insertId |-> insertId]

FacadeFail(data, meta, sent) ==
  [ok |-> FALSE, data |-> data, meta |-> meta,
   res |-> Normalized(<<>>, 0, None), sent |-> sent]

\* what the adapter makes of a node-postgres answer
PgShape(r) == Normalized(r.rows, OrZero(r.rowCount), OrNull(FirstRowId(r.rows)))

PgResult(data, meta, r) ==
  IF ~r.ok THEN FacadeFail(data, meta, r.sent)
  ELSE [ok |-> TRUE, data |-> r.data, meta |-> meta, res |-> PgShape(r),
        sent |-> r.sent]

\* query of db-adapter.js on PostgreSQL: translate, pool.query, normalize
PgQuery(data, meta, st) ==
  PgResult(data, meta,
           PgDriver(data, [st EXCEPT
                             !.text = PgFinalText(st.text),
                             !.params = ConvertedParams(TRUE, st.params)]))

\* what db.js makes of db.all (SELECT) and of db.run (INSERT, anything else)
SqliteShape(kind, r) ==
  CASE kind = "SELECT" -> Normalized(r.rows, Len(r.rows), None)
    [] kind = "INSERT" ->
         Normalized(<<>>, r.meta.changes, OrNull(Some(r.meta.lastID)))
    [] OTHER -> Normalized(<<>>, r.meta.changes, None)

\* the branch db.js takes on the statement's first keyword
SqliteKind(text) ==
  IF StartsWith(UpperText(Trim(text)), "SELECT") THEN "SELECT"
  ELSE IF StartsWith(UpperText(Trim(text)), "INSERT") THEN "INSERT"
  ELSE "OTHER"

SqliteResult(data, meta, text, r) ==
  IF ~r.ok THEN FacadeFail(data, meta, r.sent)
  ELSE [ok |-> TRUE, data |-> r.data, meta |-> r.meta,
        res |-> SqliteShape(SqliteKind(text), r), sent |-> r.sent]

\* query of db.js on SQLite
SqliteQuery(data, meta, st) ==
  SqliteResult(data, meta, ConvertParams(FALSE, st.text),
               SqliteDriver(data, meta,
                            [st EXCEPT
                               !.text = ConvertParams(FALSE, st.text),
                               !.params = ConvertedParams(FALSE, st.params)]))

\* query of db-adapter.js
Query(isPg, data, meta, st) ==
  IF isPg THEN PgQuery(data, meta, st) ELSE SqliteQuery(data, meta, st)

\* result.rows[0] || null
FirstRow(rows) == IF rows = <<>> THEN None ELSE Some(rows[1])

PgOne(meta, r) ==
  [ok |-> r.ok, data |-> r.data, meta |-> meta,
   row |-> IF r.ok THEN FirstRow(r.rows) ELSE None, sent |-> r.sent]

SqliteOne(q) ==
  [ok |-> q.ok, data |-> q.data, meta |-> q.meta,
   row |-> IF q.ok THEN FirstRow(q.res.rows) ELSE None, sent |-> q.sent]

\* queryOne of db-adapter.js: on PostgreSQL the converted text goes to
\* pool.query as it is; on SQLite it is db.js's query, first row
QueryOne(isPg, data, meta, st) ==
  IF isPg
  THEN PgOne(meta,
             PgDriver(data, [st EXCEPT
                               !.text = ConvertParams(TRUE, st.text),
                               !.params = ConvertedParams(TRUE, st.params)]))
  ELSE SqliteOne(SqliteQuery(data, meta, st))

\* execute of postgres.js: pool.query, then {rows, rowCount, insertId}
PgExecuteShape(r) ==
  Normalized(r.rows, OrZero(r.rowCount), OrNull(FirstRowId(r.rows)))

PgExecuted(data, meta, r) ==
  IF ~r.ok THEN FacadeFail(data, meta, r.sent)
  ELSE [ok |-> TRUE, data |-> r.data, meta |-> meta,
        res |-> PgExecuteShape(r), sent |-> r.sent]

\* execute without query's RETURNING rule
ExecuteTextAsIs(text) == ConvertParams(TRUE, text)

\* the text execute sends to PostgreSQL: its own copy of query's rule
ExecuteFinalText(text) ==
  IF StartsWith(UpperText(Trim(ConvertParams(TRUE, text))), "INSERT")
     /\ ~Includes(ConvertParams(TRUE, text), "RETURNING")
  THEN StripTerminator(ConvertParams(TRUE, text))
         \o <<" ", "RETURNING", " ", "id">>
  ELSE ConvertParams(TRUE, text)

\* execute of db-adapter.js on SQLite: db.js's query, each field defaulted
SqliteExecuted(q) ==
  [q EXCEPT !.res = Normalized(q.res.rows, q.res.rowCount,
                               OrNull(q.res.insertId))]

\* execute of db-adapter.js
Execute(isPg, data, meta, st) ==
  IF isPg
  THEN PgExecuted(data, meta,
                  PgDriver(data, [st EXCEPT
                                    !.text = ExecuteFinalText(st.text),
                                    !.params = ConvertedParams(TRUE, st.params)]))
  ELSE SqliteExecuted(SqliteQuery(data, meta, st))

(***************************************************************************)
(* State.                                                                  *)
(***************************************************************************)
VARIABLES
  envDatabaseUrl,  \* process.env.DATABASE_URL: unset, or its string
  envResetUsers,   \* process.env.RESET_USERS === 'true'
  dbAdapter,       \* db-adapter.js: "none", "postgres" or "sqlite"
  pool,            \* postgres.js: "none" or "open"
  committed,       \* the database: what a new connection sees
  tx,              \* per connection, the open transaction's data, if any
  sqMeta,          \* lastID and changes of the SQLite connection
  pc,              \* where resetOperationalData stands
  idx,             \* position in TABLES_TO_CLEAN
  client,          \* the checked-out client: "none", "held", "released"
  results,         \* the report being built
  totalDeleted,    \* the summary's total, once computed
  inflight,        \* statements sent and not yet answered
  log,             \* statements of this invocation, as issued and answered
  db0,             \* the database when the invocation started
  invocations,     \* invocations started so far
  origError,       \* the statement whose failure reached the catch block
  faulted,         \* a failure was injected in this invocation
  outcome,         \* how the invocation ended, and what its caller got
  fData,           \* SpecFacade: the data of the two databases, pg and sq
  fMeta,           \* SpecFacade: lastID and changes of the SQLite connection
  fStmt,           \* SpecFacade: the statement of the last call
  fCall,           \* SpecFacade: the last call: query, queryOne, execute
  fSame,           \* SpecFacade: both databases held the same data before it
  fRes,            \* SpecFacade: what the call gave on pg and on sq
  fCalls,          \* SpecFacade: calls made so far
  fPrev,           \* SpecFacade: data and SQLite meta before the last call
  fSent,           \* SpecFacade: what the last call sent to each driver
  pgQuery,         \* db-adapter.js: pgQuery, pgQueryOne, ... are assigned
  sqliteDb,        \* the sqliteDb of db.js and of db-helper.js: is it open
  initPc,          \* where the running initDatabase stands
  usePostgres,     \* DATABASE_URL as the last initDatabase read it
  returned,        \* what the last initDatabase returned, once it did
  kindRead,        \* the last getDbAdapter / isPostgres / isSqlite answers
  dataCall,        \* the last data call: what it found and how it ended
  envNodeEnv,      \* process.env.NODE_ENV: unset, or its string
  poolInfo,        \* SpecPool: the pool as created: ssl, probe, probed
  lifecycle,       \* SpecPool: the last initPostgres / closePool that ended
  envEnableAdminReset, \* process.env.ENABLE_ADMIN_RESET: unset, or its string
  req,             \* SpecAdmin: the requests to /reset-operational-data
  envAllowDevAdmin, \* process.env.ALLOW_DEV_ADMIN: unset, or its string
  usuarios,        \* SpecDev: the rows of usuarios, by id
  dev,             \* SpecDev: the request to /make-me-admin being served
  promoted,        \* SpecDev: the emails a call has succeeded for
  conns,           \* SpecShare: per connection, who holds it and its transaction
  inv,             \* SpecShare: the overlapping invocations of the reset
  wr,              \* SpecShare: the write another caller makes through the facade
  ran,             \* SpecShare: who ran a statement on whose connection
  closers          \* SpecOverlap: the closePool calls awaiting pool.end()

resetVars ==
  << envDatabaseUrl, envResetUsers, dbAdapter, pool, committed, tx, sqMeta,
     pc, idx, client, results, totalDeleted, inflight, log, db0,
     invocations, origError, faulted, outcome >>

facadeVars ==
  << fData, fMeta, fStmt, fCall, fSame, fRes, fCalls, fPrev, fSent >>

selectVars ==
  << pgQuery, sqliteDb, initPc, usePostgres, returned, kindRead, dataCall >>

poolVars == << envNodeEnv, poolInfo, lifecycle, closers >>

shareVars == << conns, inv, wr, ran >>

devVars == << envAllowDevAdmin, usuarios, dev, promoted >>

routeVars ==
  << envEnableAdminReset, req, envAllowDevAdmin, usuarios, dev, promoted >>

vars == << resetVars, facadeVars, shareVars, selectVars, poolVars, routeVars >>

Conns == {"client", "pooled", "shared"}

\* DATABASE_URL is defined, empty or not
Defined(v) == v # None

\* !!v of a string or undefined
Truthy(v) == \E s \in v : s # ""

EnvValues == {None, Some(""), Some("postgres://db")}

isPostgres == dbAdapter = "postgres"

isSqlite == dbAdapter = "sqlite"

NoStmt == Stmt(<<>>, "-", "-", "-", FALSE, 0)

(***************************************************************************)
(* The databases a run starts from.                                        *)
(***************************************************************************)
\* user accounts: every combination of role and e-mail
UserRows ==
  { Row(1, AdminRole, AdminEmail), Row(2, AdminRole, "ana@troia.com"),
    Row(3, "user", AdminEmail), Row(4, "user", "rui@troia.com") }

UserFixtures == {{}, UserRows, {Row(4, "user", "rui@troia.com")}}

\* which operational tables hold rows: none of them, or all
PopulatedChoices == {{}, Range(TABLES_TO_CLEAN)}

\* which table is missing from the schema: none, or one the reset checks
AbsentChoices ==
  {{}} \cup {{t} : t \in Range(TABLES_TO_CLEAN) \cup {UsersTable}}

IndexOf(t) == CHOOSE k \in 1..Len(TABLES_TO_CLEAN) : TABLES_TO_CLEAN[k] = t

Fixture(absent, populated, shift, users) ==
  LET count(t) ==
        IF t \in absent THEN 0
        ELSE IF t \in MasterTables THEN 1
        ELSE IF t \in populated THEN 1 + ((IndexOf(t) + shift) % MaxRows)
        ELSE 0
  IN [exists |-> [t \in AllTables |-> t \notin absent],
      rows |-> [t \in AllTables |->
                  IF t = UsersTable
                  THEN (IF t \in absent THEN {} ELSE users)
                  ELSE PlainRows(count(t))],
      seq |-> [t \in AllTables |->
                 IF t = UsersTable THEN Cardinality(UserRows) ELSE count(t)]]

Fixtures ==
  { Fixture(a, p, s, u) :
      a \in AbsentChoices, p \in PopulatedChoices, s \in 0..(MaxRows - 1),
      u \in UserFixtures }

(***************************************************************************)
(* Transactions. A connection with an open transaction works on its own    *)
(* copy of the data; COMMIT publishes the copy, ROLLBACK drops it. Without *)
(* an open transaction PostgreSQL answers COMMIT and ROLLBACK (and BEGIN   *)
(* inside one) with a warning, SQLite with an error.                       *)
(***************************************************************************)
TxnOps == {"BEGIN", "COMMIT", "ROLLBACK"}

TheOne(o) == CHOOSE v \in o : TRUE

TxnControl(isPg, com, txc, op) ==
  LET same == [ok |-> isPg, com |-> com, txc |-> txc]
  IN CASE op = "BEGIN" ->
            IF txc = None THEN [ok |-> TRUE, com |-> com, txc |-> Some(com)]
            ELSE same
       [] op = "COMMIT" ->
            IF txc # None THEN [ok |-> TRUE, com |-> TheOne(txc), txc |-> None]
            ELSE same
       [] OTHER ->
            IF txc # None THEN [ok |-> TRUE, com |-> com, txc |-> None]
            ELSE same

\* the connection a call runs on: the transaction's client, or what the
\* facade uses (a pool connection of its own, the shared SQLite connection)
ConnOf(via) ==
  IF via = "client" THEN "client"
  ELSE IF isPostgres THEN "pooled" ELSE "shared"

\* what a connection sees: its open transaction's data, or the database
View(c) == IF tx[c] = None THEN committed ELSE TheOne(tx[c])

FromClient(r) ==
  [ok |-> r.ok, data |-> r.data, meta |-> sqMeta, rows |-> r.rows,
   rowCount |-> r.rowCount]

FromQuery(q) ==
  [ok |-> q.ok, data |-> q.data, meta |-> q.meta, rows |-> q.res.rows,
   rowCount |-> Some(q.res.rowCount)]

FromQueryOne(q) ==
  [ok |-> q.ok, data |-> q.data, meta |-> q.meta,
   rows |-> IF q.row = None THEN <<>> ELSE <<TheOne(q.row)>>,
   rowCount |-> None]

\* the call as the code makes it: client.query, query or queryOne
Drive(via, view, st) ==
  CASE via = "client" -> FromClient(PgDriver(view, st))
    [] via = "query" -> FromQuery(Query(isPostgres, view, sqMeta, st))
    [] OTHER -> FromQueryOne(QueryOne(isPostgres, view, sqMeta, st))

\* the engine after the call: transaction control moves the transaction,
\* any other statement the data its connection sees
Effect(c, st, drv, ctl) ==
  IF st.op \in TxnOps
  THEN [ok |-> drv.ok /\ ctl.ok, com |-> ctl.com, txc |-> ctl.txc,
        meta |-> drv.meta, rows |-> drv.rows, rowCount |-> drv.rowCount]
  ELSE [ok |-> drv.ok,
        com |-> IF tx[c] = None THEN drv.data ELSE committed,
        txc |-> IF tx[c] = None THEN None ELSE Some(drv.data),
        meta |-> drv.meta, rows |-> drv.rows, rowCount |-> drv.rowCount]

\* one call on the engine as it stands
Run(via, st) ==
  Effect(ConnOf(via), st, Drive(via, View(ConnOf(via)), st),
         TxnControl(isPostgres, committed, tx[ConnOf(via)], st.op))

(***************************************************************************)
(* The statements of reset-operational-data.js.                            *)
(***************************************************************************)
BeginStmt ==
  IF isPostgres THEN Stmt(<<"BEGIN">>, "BEGIN", "-", "-", FALSE, 0)
  ELSE Stmt(<<"BEGIN", " ", "TRANSACTION">>, "BEGIN", "-", "-", FALSE, 0)

\* tableExists
ExistsStmt(t) ==
  IF isPostgres
  THEN Stmt(<<"SELECT", " ", "EXISTS", " ", "(", "SELECT", " ", "FROM", " ",
              "information_schema.tables", "\n", "WHERE", " ", "table_name",
              " ", "=", " ", "$1", ")">>, "EXISTS", t, "-", FALSE, 0)
  ELSE Stmt(<<"SELECT", " ", "name", " ", "FROM", " ", "sqlite_master", "\n",
              "WHERE", " ", "name", " ", "=", " ", "?">>,
            "CATALOG", t, "-", FALSE, 0)

\* !!result on both backends
AnyRow(rows) == rows # <<>>

\* result?.exists || false on PostgreSQL, !!result on SQLite
ExistsAnswer(rows) ==
  IF isPostgres THEN rows # <<>> /\ rows[1].flag ELSE rows # <<>>

CountStmt(t) ==
  Stmt(<<"SELECT", " ", "COUNT(*)", " ", "as", " ", "count", " ", "FROM",
         " ", t>>, "COUNT", t, "-", FALSE, 0)

DeleteStmt(t) ==
  Stmt(<<"DELETE", " ", "FROM", " ", t>>, "DELETE", t, "all", FALSE, 0)

\* the users' delete without its WHERE clause
DeleteAllUsersStmt == DeleteStmt(UsersTable)

\* cleanUsers
DeleteUsersStmt ==
  Stmt(<<"DELETE", " ", "FROM", " ", UsersTable, "\n", "WHERE", " ", "role",
         " ", "!=", " ", "'admin'", "\n", "AND", " ", "email", " ", "!=",
         " ", "'admin@troia.com'">>, "DELETE", UsersTable, "nonadmin",
       FALSE, 0)

CommitStmt == Stmt(<<"COMMIT">>, "COMMIT", "-", "-", FALSE, 0)

RollbackStmt == Stmt(<<"ROLLBACK">>, "ROLLBACK", "-", "-", FALSE, 0)

\* every delete sent through the facade, whatever the transaction's client
ViaFacade == "query"

\* if (client && isPostgres()) client.query(...) else query(...)
DeleteVia == IF client # "none" /\ isPostgres THEN "client" ELSE "query"

\* if (client) client.query(...) else query(...)
TxnVia == IF client # "none" THEN "client" ELSE "query"

\* the list walked from its end
TableFromEnd(k) == TABLES_TO_CLEAN[Len(TABLES_TO_CLEAN) + 1 - k]

\* for (const table of TABLES_TO_CLEAN)
TableAt(k) == TABLES_TO_CLEAN[k]

\* result.rows.length
RowsReturned(a) == Len(a.rows)

\* result?.rowCount || 0
DeletedOf(a) == OrZero(a.rowCount)

Entry(t, deleted, skipped) ==
  [table |-> t, deleted |-> deleted, skipped |-> skipped]

\* results kept from one invocation to the next
KeptResults(previous) == previous

\* const results = []
FreshResults(previous) == <<>>

\* cleanUsers called whatever the flag
UsersAlways(resetUsers) == TRUE

\* if (resetUsers)
UsersRequested(resetUsers) == resetUsers

\* the summary loop: deleted of the entries that are not skipped
TotalOf(res) ==
  SumSeq([k \in 1..Len(res) |->
            IF res[k].skipped THEN 0 ELSE res[k].deleted])

Event(ev, via, st) ==
  [ev |-> ev, op |-> st.op, table |-> st.table, conn |-> ConnOf(via)]

Pending(via, st) == [op |-> st.op, table |-> st.table, conn |-> ConnOf(via)]

\* await: the code goes on only when the call it waits for has settled
Awaited == inflight = {}

(***************************************************************************)
(* resetOperationalData, one step per call it awaits: the call is issued,  *)
(* then it settles and the code runs on to the next call. Any call may     *)
(* fail (fault), leaving the engine as it was.                             *)
(***************************************************************************)
Running == [how |-> "running", raised |-> "-"]

\* the call is sent
Issue(from, to, via, st) ==
  /\ pc = from
  /\ Awaited
  /\ pc' = to
  /\ inflight' = inflight \cup {Pending(via, st)}
  /\ log' = Append(log, Event("issue", via, st))
  /\ UNCHANGED << envDatabaseUrl, envResetUsers, dbAdapter, pool, committed,
                  tx, sqMeta, idx, client, results, totalDeleted, db0,
                  invocations, origError, faulted, outcome >>
  /\ UNCHANGED << facadeVars, shareVars, routeVars, selectVars, poolVars >>

\* the call's answer, with a failure injected or not
Faulty(a, fault) == [a EXCEPT !.ok = a.ok /\ ~fault]

Answer(via, st, fault) == Faulty(Run(via, st), fault)

\* the call settles: the engine moves if it succeeded
Settle(from, via, st, a, fault) ==
  /\ pc = from
  /\ Pending(via, st) \in inflight
  /\ inflight' = inflight \ {Pending(via, st)}
  /\ log' = Append(log, Event(IF a.ok THEN "done" ELSE "fail", via, st))
  /\ IF a.ok
     THEN /\ committed' = a.com
          /\ tx' = [tx EXCEPT ![ConnOf(via)] = a.txc]
          /\ sqMeta' = a.meta
     ELSE UNCHANGED << committed, tx, sqMeta >>
  /\ faulted' = (faulted \/ fault)
  /\ UNCHANGED << envDatabaseUrl, envResetUsers, dbAdapter, pool, db0,
                  invocations, totalDeleted, outcome >>
  /\ UNCHANGED << facadeVars, shareVars, routeVars, selectVars, poolVars >>

\* the statement failed: on to the catch block with the error
Thrown(st) ==
  /\ pc' = "catch"
  /\ origError' = st.op
  /\ UNCHANGED << idx, client, results >>

\* the loop left after its first table
CommitAfterFirst(k) == "commit"

\* after the table at position k: the next table, the users, or COMMIT
AfterTable(k) ==
  IF k < Len(TABLES_TO_CLEAN) THEN "exists"
  ELSE IF UsersRequested(envResetUsers) THEN "uexists" ELSE "commit"

StartInvocation ==
  /\ pc \in {"idle", "returned"}
  /\ invocations < MaxInvocations
  /\ invocations' = invocations + 1
  /\ pc' = "initdb"
  /\ db0' = committed
  /\ idx' = 1
  /\ client' = "none"
  /\ results' = FreshResults(results)
  /\ totalDeleted' = 0
  /\ log' = <<>>
  /\ origError' = "-"
  /\ faulted' = FALSE
  /\ outcome' = Running
  /\ UNCHANGED << envDatabaseUrl, envResetUsers, dbAdapter, pool, committed,
                  tx, sqMeta, inflight >>
  /\ UNCHANGED << facadeVars, shareVars, routeVars, selectVars, poolVars >>

\* initDatabase, with initPostgres and its liveness probe
InitDatabase ==
  /\ pc = "initdb"
  /\ \E probeOk \in BOOLEAN :
       IF Truthy(envDatabaseUrl)
       THEN IF pool = "open" \/ probeOk
            THEN /\ probeOk
                 /\ pool' = "open"
                 /\ dbAdapter' = "postgres"
                 /\ pc' = "connect"
                 /\ UNCHANGED << origError, faulted >>
            ELSE /\ pool' = "open"
                 /\ pc' = "rejected"
                 /\ origError' = "initDatabase"
                 /\ faulted' = TRUE
                 /\ UNCHANGED dbAdapter
       ELSE /\ probeOk
            /\ dbAdapter' = "sqlite"
            /\ pc' = "begin"
            /\ UNCHANGED << pool, origError, faulted >>
  /\ UNCHANGED << envDatabaseUrl, envResetUsers, committed, tx, sqMeta, idx,
                  client, results, totalDeleted, inflight, log, db0,
                  invocations, outcome >>
  /\ UNCHANGED << facadeVars, shareVars, routeVars, selectVars, poolVars >>

\* client = await pool.connect()
Connect ==
  /\ pc = "connect"
  /\ \E ok \in BOOLEAN :
       IF ok
       THEN /\ client' = "held"
            /\ pc' = "begin"
            /\ UNCHANGED << origError, faulted >>
       ELSE /\ pc' = "catch"
            /\ origError' = "connect"
            /\ faulted' = TRUE
            /\ UNCHANGED client
  /\ UNCHANGED << envDatabaseUrl, envResetUsers, dbAdapter, pool, committed,
                  tx, sqMeta, idx, results, totalDeleted, inflight, log, db0,
                  invocations, outcome >>
  /\ UNCHANGED << facadeVars, shareVars, routeVars, selectVars, poolVars >>

IssueBegin == Issue("begin", "begin_w", TxnVia, BeginStmt)

BeginSettled(a, fault) ==
  /\ Settle("begin_w", TxnVia, BeginStmt, a, fault)
  /\ IF a.ok
     THEN /\ pc' = "exists"
          /\ UNCHANGED << idx, client, results, origError >>
     ELSE Thrown(BeginStmt)

CompleteBegin ==
  \E fault \in BOOLEAN :
    BeginSettled(Answer(TxnVia, BeginStmt, fault), fault)

\* a failed check treated as an answer
CheckAnswers(a) == FALSE

\* tableExists awaits queryOne without a try: its failure is cleanTable's
CheckThrows(a) == ~a.ok

IssueExists == Issue("exists", "exists_w", "queryOne", ExistsStmt(TableAt(idx)))

\* cleanTable up to the existence check
ExistsSettled(st, a, fault) ==
  /\ Settle("exists_w", "queryOne", st, a, fault)
  /\ IF CheckThrows(a) THEN Thrown(st)
     ELSE IF ExistsAnswer(a.rows)
     THEN /\ pc' = IF DeleteVia = "client" THEN "count" ELSE "delete"
          /\ UNCHANGED << idx, client, results, origError >>
     ELSE /\ results' = Append(results, Entry(TableAt(idx), 0, TRUE))
          /\ pc' = AfterTable(idx)
          /\ idx' = IF idx < Len(TABLES_TO_CLEAN) THEN idx + 1 ELSE idx
          /\ UNCHANGED << client, origError >>

CompleteExists ==
  \E fault \in BOOLEAN :
    ExistsSettled(ExistsStmt(TableAt(idx)),
                  Answer("queryOne", ExistsStmt(TableAt(idx)), fault), fault)

IssueCount == Issue("count", "count_w", "client", CountStmt(TableAt(idx)))

CountSettled(st, a, fault) ==
  /\ Settle("count_w", "client", st, a, fault)
  /\ IF a.ok
     THEN /\ pc' = "delete"
          /\ UNCHANGED << idx, client, results, origError >>
     ELSE Thrown(st)

CompleteCount ==
  \E fault \in BOOLEAN :
    CountSettled(CountStmt(TableAt(idx)),
                 Answer("client", CountStmt(TableAt(idx)), fault), fault)

IssueDelete == Issue("delete", "delete_w", DeleteVia, DeleteStmt(TableAt(idx)))

\* cleanTable's delete and its report entry
DeleteSettled(st, a, fault) ==
  /\ Settle("delete_w", DeleteVia, st, a, fault)
  /\ IF a.ok
     THEN /\ results' =
               Append(results, Entry(TableAt(idx), DeletedOf(a), FALSE))
          /\ pc' = AfterTable(idx)
          /\ idx' = IF idx < Len(TABLES_TO_CLEAN) THEN idx + 1 ELSE idx
          /\ UNCHANGED << client, origError >>
     ELSE Thrown(st)

CompleteDelete ==
  \E fault \in BOOLEAN :
    DeleteSettled(DeleteStmt(TableAt(idx)),
                  Answer(DeleteVia, DeleteStmt(TableAt(idx)), fault), fault)

IssueUsersExists ==
  Issue("uexists", "uexists_w", "queryOne", ExistsStmt(UsersTable))

\* cleanUsers up to the existence check
UsersExistsSettled(st, a, fault) ==
  /\ Settle("uexists_w", "queryOne", st, a, fault)
  /\ IF CheckThrows(a) THEN Thrown(st)
     ELSE IF ExistsAnswer(a.rows)
     THEN /\ pc' = "udelete"
          /\ UNCHANGED << idx, client, results, origError >>
     ELSE /\ results' = Append(results, Entry(UsersTable, 0, TRUE))
          /\ pc' = "commit"
          /\ UNCHANGED << idx, client, origError >>

CompleteUsersExists ==
  \E fault \in BOOLEAN :
    UsersExistsSettled(ExistsStmt(UsersTable),
                       Answer("queryOne", ExistsStmt(UsersTable), fault), fault)

IssueUsersDelete == Issue("udelete", "udelete_w", DeleteVia, DeleteUsersStmt)

UsersDeleteSettled(a, fault) ==
  /\ Settle("udelete_w", DeleteVia, DeleteUsersStmt, a, fault)
  /\ IF a.ok
     THEN /\ results' = Append(results, Entry(UsersTable, DeletedOf(a), FALSE))
          /\ pc' = "commit"
          /\ UNCHANGED << idx, client, origError >>
     ELSE Thrown(DeleteUsersStmt)

CompleteUsersDelete ==
  \E fault \in BOOLEAN :
    UsersDeleteSettled(Answer(DeleteVia, DeleteUsersStmt, fault), fault)

IssueCommit == Issue("commit", "commit_w", TxnVia, CommitStmt)

\* COMMIT, then client.release() on PostgreSQL
CommitSettled(a, fault) ==
  /\ Settle("commit_w", TxnVia, CommitStmt, a, fault)
  /\ IF a.ok
     THEN /\ client' = IF client = "held" THEN "released" ELSE client
          /\ pc' = "summary"
          /\ UNCHANGED << idx, results, origError >>
     ELSE Thrown(CommitStmt)

CompleteCommit ==
  \E fault \in BOOLEAN :
    CommitSettled(Answer(TxnVia, CommitStmt, fault), fault)

\* the summary loop
Summary ==
  /\ pc = "summary"
  /\ totalDeleted' = TotalOf(results)
  /\ pc' = "finally"
  /\ UNCHANGED << envDatabaseUrl, envResetUsers, dbAdapter, pool, committed,
                  tx, sqMeta, idx, client, results, inflight, log, db0,
                  invocations, origError, faulted, outcome >>
  /\ UNCHANGED << facadeVars, shareVars, routeVars, selectVars, poolVars >>

\* finally: closePool on PostgreSQL; the function returns
Finally ==
  /\ pc = "finally"
  /\ pool' = IF isPostgres THEN "none" ELSE pool
  /\ outcome' = [how |-> "returned", raised |-> "-"]
  /\ pc' = "returned"
  /\ UNCHANGED << envDatabaseUrl, envResetUsers, dbAdapter, committed, tx,
                  sqMeta, idx, client, results, totalDeleted, inflight, log,
                  db0, invocations, origError, faulted >>
  /\ UNCHANGED << facadeVars, shareVars, routeVars, selectVars, poolVars >>

\* catch: ROLLBACK on the client, or through the facade without one
IssueRollback == Issue("catch", "rollback_w", TxnVia, RollbackStmt)

\* the client is released after a ROLLBACK that succeeded; a failed
\* ROLLBACK is logged and dropped
RollbackSettled(a, fault) ==
  /\ Settle("rollback_w", TxnVia, RollbackStmt, a, fault)
  /\ client' = IF a.ok /\ client = "held" THEN "released" ELSE client
  /\ pc' = "exit"
  /\ UNCHANGED << idx, results, origError >>

CompleteRollback ==
  \E fault \in BOOLEAN :
    RollbackSettled(Answer(TxnVia, RollbackStmt, fault), fault)

\* process.exit(1) in the catch block: the process ends there, its
\* connections close and the engine drops what they had not committed
ProcessExit ==
  /\ pc = "exit"
  /\ outcome' = [how |-> "exited", raised |-> "-"]
  /\ tx' = [c \in Conns |-> None]
  /\ pc' = "dead"
  /\ UNCHANGED << envDatabaseUrl, envResetUsers, dbAdapter, pool, committed,
                  sqMeta, idx, client, results, totalDeleted, inflight, log,
                  db0, invocations, origError, faulted >>
  /\ UNCHANGED << facadeVars, shareVars, routeVars, selectVars, poolVars >>

\* initDatabase threw outside the try block: the caller gets the error
Rejected ==
  /\ pc = "rejected"
  /\ outcome' = [how |-> "rejected", raised |-> origError]
  /\ tx' = [c \in Conns |-> None]
  /\ pc' = "dead"
  /\ UNCHANGED << envDatabaseUrl, envResetUsers, dbAdapter, pool, committed,
                  sqMeta, idx, client, results, totalDeleted, inflight, log,
                  db0, invocations, origError, faulted >>
  /\ UNCHANGED << facadeVars, shareVars, routeVars, selectVars, poolVars >>

(***************************************************************************)
(* The facade on both backends: the same neutral statement is sent through *)
(* the adapter of a process on PostgreSQL and of a process on SQLite.      *)
(***************************************************************************)
FacadeTable == "veiculos"

Sql(text, op, where, withId, n) == Stmt(text, op, FacadeTable, where, withId, n)

SelectStatements ==
  { Sql(<<"SELECT", " ", "id", ",", "placa", " ", "FROM", " ", FacadeTable>>,
        "SELECT", "all", TRUE, 0),
    Sql(<<"SELECT", " ", "placa", " ", "FROM", " ", FacadeTable>>,
        "SELECT", "all", FALSE, 0),
    Sql(<<" ", "select", " ", "placa", " ", "FROM", " ", FacadeTable, " ",
          "WHERE", " ", "id", " ", "=", " ", "?">>,
        "SELECT", "one", FALSE, 0),
    Sql(<<"SELECT", " ", "id", " ", "FROM", " ", FacadeTable, " ", "WHERE",
          " ", "placa", " ", "=", " ", "?">>,
        "SELECT", "none", TRUE, 0),
    Sql(<<"WITH", " ", "v", " ", "AS", " ", "(", "SELECT", " ", "id", " ",
          "FROM", " ", FacadeTable, ")", " ", "SELECT", " ", "id", " ",
          "FROM", " ", "v">>,
        "SELECT", "all", TRUE, 0) }

InsertTexts ==
  { <<"INSERT", " ", "INTO", " ", FacadeTable, " ", "VALUES", " ", "?">>,
    <<"INSERT", " ", "INTO", " ", FacadeTable, " ", "VALUES", " ", "?", ";",
      "\n">>,
    <<"\n", "insert", " ", "INTO", " ", FacadeTable, " ", "VALUES", " ", "?">>,
    <<"INSERT", " ", "INTO", " ", FacadeTable, " ", "VALUES", " ", "?", " ",
      "RETURNING", " ", "id">>,
    <<"INSERT", " ", "INTO", " ", FacadeTable, " ", "VALUES", " ", "?", " ",
      "returning", " ", "id">> }

InsertStatements ==
  { Sql(text, "INSERT", "-", FALSE, n) : text \in InsertTexts, n \in 0..MaxRows }

WriteStatements ==
  { Sql(<<"UPDATE", " ", FacadeTable, " ", "SET", " ", "placa", " ", "=",
          " ", "?">>, "UPDATE", w, FALSE, 0) : w \in {"all", "one", "none"} }
  \cup
  { Sql(<<"UPDATE", " ", FacadeTable, " ", "SET", " ", "placa", " ", "=",
          " ", "?", ",", " ", "km", " ", "=", " ", "?", " ", "WHERE", " ",
          "id", " ", "=", " ", "?", ";">>, "UPDATE", "one", FALSE, 0),
    Sql(<<"DELETE", " ", "FROM", " ", FacadeTable, " ", "WHERE", " ", "id",
          " ", "=", " ", "?">>, "DELETE", "one", FALSE, 0),
    Sql(<<"DELETE", " ", "FROM", " ", FacadeTable, " ", "WHERE", " ", "id",
          " ", "=", " ", "?", " ", "RETURNING", " ", "id">>,
        "DELETE", "one", FALSE, 0) }

NeutralStatements == SelectStatements \cup InsertStatements \cup WriteStatements

FacadeFixture(n) ==
  LET base == Fixture({}, {}, 0, {})
  IN [base EXCEPT !.rows[FacadeTable] = PlainRows(n), !.seq[FacadeTable] = n]

NoResult == [ok |-> TRUE, res |-> Normalized(<<>>, 0, None), row |-> None]

\* the call's statement, what each backend was sent and what it answered
Recorded(call, st, p, q, pgAnswer, sqAnswer) ==
  /\ fStmt' = st
  /\ fCall' = call
  /\ fPrev' = [pg |-> fData.pg, sq |-> fData.sq, meta |-> fMeta]
  /\ fData' = [pg |-> p.data, sq |-> q.data]
  /\ fMeta' = q.meta
  /\ fSent' = [pg |-> p.sent, sq |-> q.sent]
  /\ fRes' = [pg |-> pgAnswer, sq |-> sqAnswer]
  /\ fSame' = (fData.pg = fData.sq)
  /\ fCalls' = fCalls + 1
  /\ UNCHANGED << resetVars, shareVars, selectVars, poolVars, routeVars >>

QueryRecorded(call, st, p, q) ==
  Recorded(call, st, p, q, [ok |-> p.ok, res |-> p.res, row |-> None],
           [ok |-> q.ok, res |-> q.res, row |-> None])

\* query on both backends
FacadeQuery ==
  /\ fCalls < MaxCalls
  /\ \E st \in NeutralStatements :
       QueryRecorded("query", st, Query(TRUE, fData.pg, fMeta, st),
                     Query(FALSE, fData.sq, fMeta, st))

QueryOneRecorded(st, p, q) ==
  Recorded("queryOne", st, p, q,
           [ok |-> p.ok, res |-> Normalized(<<>>, 0, None), row |-> p.row],
           [ok |-> q.ok, res |-> Normalized(<<>>, 0, None), row |-> q.row])

\* queryOne on both backends
FacadeQueryOne ==
  /\ fCalls < MaxCalls
  /\ \E st \in NeutralStatements :
       QueryOneRecorded(st, QueryOne(TRUE, fData.pg, fMeta, st),
                        QueryOne(FALSE, fData.sq, fMeta, st))

\* execute on both backends
FacadeExecute ==
  /\ fCalls < MaxCalls
  /\ \E st \in NeutralStatements :
       QueryRecorded("execute", st, Execute(TRUE, fData.pg, fMeta, st),
                     Execute(FALSE, fData.sq, fMeta, st))

(***************************************************************************)
(* Backend selection and the connection handles: initDatabase of           *)
(* db-adapter.js, initPostgres / getPool / closePool of postgres.js, the   *)
(* lazy SQLite connections of db.js and db-helper.js.                      *)
(***************************************************************************)
Modules == {"db.js", "db-helper.js"}

AdapterOps == {"query", "queryOne", "queryAll", "execute"}

DbOps == {"query", "queryOne", "queryAll"}

HelperOps == {"dbGet", "dbAll", "dbRun"}

NoRead == [getDbAdapter |-> "-", isPostgres |-> FALSE, isSqlite |-> FALSE]

NoCall ==
  [via |-> "-", op |-> "-", dbAdapter |-> "none", pool |-> "none",
   error |-> "-", reached |-> "-"]

\* a call as it ended: error is "none" when the statement was handed on
Called(via, op, end) ==
  [via |-> via, op |-> op, dbAdapter |-> dbAdapter, pool |-> pool,
   error |-> end.error, reached |-> end.reached]

\* process.env.DATABASE_URL is set, cleared or changed
SetEnv ==
  /\ \E v \in EnvValues \ {envDatabaseUrl} : envDatabaseUrl' = v
  /\ UNCHANGED << envResetUsers, dbAdapter, pool, committed, tx, sqMeta, pc,
                  idx, client, results, totalDeleted, inflight, log, db0,
                  invocations, origError, faulted, outcome >>
  /\ UNCHANGED << facadeVars, shareVars, routeVars, selectVars, poolVars >>

\* initDatabase up to its first await: the determination, and on SQLite
\* the whole call
SelectBackend ==
  /\ initPc = "idle"
  /\ usePostgres' = Some(envDatabaseUrl)
  /\ IF Truthy(envDatabaseUrl)
     THEN /\ pgQuery' = TRUE
          /\ initPc' = "initPostgres"
          /\ returned' = "-"
          /\ UNCHANGED dbAdapter
     ELSE /\ dbAdapter' = "sqlite"
          /\ returned' = "sqlite"
          /\ UNCHANGED << pgQuery, initPc >>
  /\ UNCHANGED << envDatabaseUrl, envResetUsers, pool, committed, tx, sqMeta,
                  pc, idx, client, results, totalDeleted, inflight, log,
                  db0, invocations, origError, faulted, outcome >>
  /\ UNCHANGED << facadeVars, shareVars, routeVars, poolVars, sqliteDb, kindRead, dataCall >>

\* initPostgres and the rest of initDatabase: the pool is kept when there
\* is one, else created from DATABASE_URL as it is now and probed
InitPostgres ==
  /\ initPc = "initPostgres"
  /\ initPc' = "idle"
  /\ \E probeOk \in BOOLEAN :
       IF pool = "open"
       THEN /\ probeOk
            /\ dbAdapter' = "postgres"
            /\ returned' = "postgres"
            /\ UNCHANGED pool
       ELSE IF ~Truthy(envDatabaseUrl)
       THEN /\ probeOk
            /\ UNCHANGED << dbAdapter, returned, pool >>
       ELSE /\ pool' = "open"
            /\ IF probeOk
               THEN /\ dbAdapter' = "postgres"
                    /\ returned' = "postgres"
               ELSE UNCHANGED << dbAdapter, returned >>
  /\ UNCHANGED << envDatabaseUrl, envResetUsers, committed, tx, sqMeta, pc,
                  idx, client, results, totalDeleted, inflight, log, db0,
                  invocations, origError, faulted, outcome >>
  /\ UNCHANGED << facadeVars, shareVars, routeVars, poolVars, pgQuery, sqliteDb, usePostgres,
                  kindRead, dataCall >>

\* getDbAdapter(), isPostgres(), isSqlite()
ReadKind ==
  /\ kindRead' = [getDbAdapter |-> dbAdapter, isPostgres |-> isPostgres,
                  isSqlite |-> isSqlite]
  /\ kindRead' # kindRead
  /\ UNCHANGED << resetVars, facadeVars, shareVars, routeVars, poolVars, pgQuery, sqliteDb, initPc,
                  usePostgres, returned, dataCall >>

\* closePool
ClosePool ==
  /\ pool = "open"
  /\ pool' = "none"
  /\ UNCHANGED << envDatabaseUrl, envResetUsers, dbAdapter, committed, tx,
                  sqMeta, pc, idx, client, results, totalDeleted, inflight,
                  log, db0, invocations, origError, faulted, outcome >>
  /\ UNCHANGED << facadeVars, shareVars, routeVars, selectVars, poolVars >>

\* query, queryOne, queryAll, execute of postgres.js: getPool, pool.query
ViaPool ==
  IF pool = "none"
  THEN [error |-> "NotInitialized", reached |-> "-"]
  ELSE [error |-> "none", reached |-> "postgres"]

\* the SQLite branch of a module: getSqliteDb() opens its connection when
\* the backend is SQLite and gives null otherwise; db.all on null throws
ViaSqlite(m) ==
  IF sqliteDb[m] \/ isSqlite
  THEN [error |-> "none", reached |-> "sqlite"]
  ELSE [error |-> "TypeError", reached |-> "-"]

Opened(m) ==
  IF isPostgres
  THEN sqliteDb
  ELSE [sqliteDb EXCEPT ![m] = sqliteDb[m] \/ isSqlite]

\* query of db.js, which queryOne and queryAll of db.js call
ViaDb == IF isPostgres THEN ViaPool ELSE ViaSqlite("db.js")

\* a call of db-adapter.js: the loaded postgres.js function, or db.js
ViaAdapter ==
  IF isPostgres
  THEN IF ~pgQuery
       THEN [error |-> "NotInitialized", reached |-> "-"]
       ELSE ViaPool
  ELSE ViaSqlite("db.js")

AdapterCall ==
  /\ \E op \in AdapterOps : dataCall' = Called("db-adapter.js", op, ViaAdapter)
  /\ dataCall' # dataCall
  /\ sqliteDb' = Opened("db.js")
  /\ UNCHANGED << resetVars, facadeVars, shareVars, routeVars, poolVars, pgQuery, initPc, usePostgres,
                  returned, kindRead >>

DbCall ==
  /\ \E op \in DbOps : dataCall' = Called("db.js", op, ViaDb)
  /\ dataCall' # dataCall
  /\ sqliteDb' = Opened("db.js")
  /\ UNCHANGED << resetVars, facadeVars, shareVars, routeVars, poolVars, pgQuery, initPc, usePostgres,
                  returned, kindRead >>

\* dbGet, dbAll, dbRun of db-helper.js
HelperCall ==
  /\ \E op \in HelperOps :
       dataCall' = Called("db-helper.js", op,
                          IF isPostgres THEN ViaPool
                          ELSE ViaSqlite("db-helper.js"))
  /\ dataCall' # dataCall
  /\ sqliteDb' = Opened("db-helper.js")
  /\ UNCHANGED << resetVars, facadeVars, shareVars, routeVars, poolVars, pgQuery, initPc, usePostgres,
                  returned, kindRead >>

(***************************************************************************)
(* The pool of postgres.js on its own: initPostgres with its probe as a    *)
(* step of its own, and closePool.                                         *)
(***************************************************************************)
NodeEnvValues == {None, Some("production"), Some("development")}

NoPool ==
  [probing |-> FALSE, probed |-> FALSE, ssl |-> FALSE, nodeEnv |-> None,
   connectionString |-> None, probeClient |-> "none", ends |-> 0]

NoLifecycle ==
  [op |-> "-", end |-> "-", url |-> None, hadPool |-> FALSE,
   ending |-> FALSE]

\* a call of initPostgres or closePool: what it found and how it ended
Lifecycle(op, end) ==
  [op |-> op, end |-> end, url |-> envDatabaseUrl, hadPool |-> pool = "open",
   ending |-> poolInfo.ends > 0]

\* ssl: process.env.NODE_ENV === 'production' ? {...} : false
Ssl(nodeEnv) == nodeEnv = Some("production")

\* new Pool({connectionString, ssl, ...}), its probe not yet answered
NewPool ==
  [probing |-> TRUE, probed |-> FALSE, ssl |-> Ssl(envNodeEnv),
   nodeEnv |-> envNodeEnv, connectionString |-> envDatabaseUrl,
   probeClient |-> "none", ends |-> 0]

\* process.env.NODE_ENV is set, cleared or changed
SetNodeEnv ==
  /\ \E v \in NodeEnvValues \ {envNodeEnv} : envNodeEnv' = v
  /\ UNCHANGED << resetVars, facadeVars, shareVars, routeVars, selectVars,
                  poolInfo, lifecycle, closers >>

\* initPostgres up to its await: the pool there is, is returned; with no
\* DATABASE_URL the call throws; else the pool is created and the probe sent
initPostgres ==
  /\ IF pool = "open"
     THEN /\ lifecycle' = Lifecycle("initPostgres", "kept")
          /\ UNCHANGED << pool, poolInfo >>
     ELSE IF ~Truthy(envDatabaseUrl)
     THEN /\ lifecycle' = Lifecycle("initPostgres", "no DATABASE_URL")
          /\ UNCHANGED << pool, poolInfo >>
     ELSE /\ pool' = "open"
          /\ poolInfo' = NewPool
          /\ UNCHANGED lifecycle
  /\ lifecycle' # lifecycle \/ pool' # pool
  /\ UNCHANGED << envDatabaseUrl, envResetUsers, dbAdapter, committed, tx,
                  sqMeta, pc, idx, client, results, totalDeleted, inflight,
                  log, db0, invocations, origError, faulted, outcome >>
  /\ UNCHANGED << facadeVars, shareVars, routeVars, selectVars, envNodeEnv,
                  closers >>

\* how the probe ends: both calls succeed, pool.connect() rejects, or
\* client.query('SELECT NOW()') rejects
ProbeOutcomes == {"ok", "connect failed", "query failed"}

\* client.release() is the statement after the query, inside the try
ProbeClient(probeEnd) ==
  CASE probeEnd = "ok" -> "released"
    [] probeEnd = "query failed" -> "held"
    [] OTHER -> "none"

\* the probe is answered: the creating call returns the pool or rethrows
Probe ==
  /\ poolInfo.probing
  /\ \E probeEnd \in ProbeOutcomes :
       /\ poolInfo' = [poolInfo EXCEPT !.probing = FALSE,
                                       !.probed = (probeEnd = "ok"),
                                       !.probeClient = ProbeClient(probeEnd)]
       /\ lifecycle' = [op |-> "initPostgres",
                        end |-> IF probeEnd = "ok" THEN "created"
                                ELSE "probe failed",
                        url |-> poolInfo.connectionString,
                        hadPool |-> FALSE,
                        ending |-> poolInfo.ends > 0]
  /\ UNCHANGED << resetVars, facadeVars, shareVars, routeVars, selectVars,
                  envNodeEnv, closers >>

\* pool.end() with the handle kept
EndPoolKeepHandle ==
  /\ ~poolInfo.probing
  /\ lifecycle' = Lifecycle("closePool", "returned")
  /\ lifecycle' # lifecycle
  /\ UNCHANGED << resetVars, facadeVars, shareVars, routeVars, selectVars,
                  envNodeEnv, poolInfo, closers >>

\* closePool, called while no probe is awaited
closePool ==
  /\ ~poolInfo.probing
  /\ lifecycle' = Lifecycle("closePool", "returned")
  /\ pool' = "none"
  /\ poolInfo' = NoPool
  /\ lifecycle' # lifecycle \/ pool' # pool
  /\ UNCHANGED << envDatabaseUrl, envResetUsers, dbAdapter, committed, tx,
                  sqMeta, pc, idx, client, results, totalDeleted, inflight,
                  log, db0, invocations, origError, faulted, outcome >>
  /\ UNCHANGED << facadeVars, shareVars, routeVars, selectVars, envNodeEnv,
                  closers >>

(***************************************************************************)
(* closePool calls that overlap: the call up to its await, and after it.   *)
(***************************************************************************)
Closers == {"c1", "c2"}

\* if (pool) { await pool.end(); ...: pool.end() is invoked on the pool
\* there is, and the call waits; with no pool the call returns
closePoolCall(c) ==
  /\ closers[c] = "idle"
  /\ ~poolInfo.probing
  /\ IF pool = "open"
     THEN /\ poolInfo' = [poolInfo EXCEPT !.ends = @ + 1]
          /\ closers' = [closers EXCEPT ![c] = "ending"]
          /\ UNCHANGED lifecycle
     ELSE /\ lifecycle' = Lifecycle("closePool", "returned")
          /\ lifecycle' # lifecycle
          /\ UNCHANGED << poolInfo, closers >>
  /\ UNCHANGED << resetVars, facadeVars, shareVars, routeVars, selectVars,
                  envNodeEnv >>

\* ... pool = null; }
closePoolResume(c) ==
  /\ closers[c] = "ending"
  /\ closers' = [closers EXCEPT ![c] = "idle"]
  /\ pool' = "none"
  /\ poolInfo' = NoPool
  /\ lifecycle' = Lifecycle("closePool", "returned")
  /\ UNCHANGED << envDatabaseUrl, envResetUsers, dbAdapter, committed, tx,
                  sqMeta, pc, idx, client, results, totalDeleted, inflight,
                  log, db0, invocations, origError, faulted, outcome >>
  /\ UNCHANGED << facadeVars, shareVars, routeVars, selectVars, envNodeEnv >>

(***************************************************************************)
(* routes/admin.js: POST /reset-operational-data. The middleware chain and *)
(* the handler up to its await are one step; the reset then returns or     *)
(* throws.                                                                 *)
(***************************************************************************)
Requests == {"r1", "r2"}

EnableValues == {None, Some("true"), Some("TRUE")}

ConfirmValues == {None, Some("RESET_ALL_DATA"), Some("reset_all_data")}

Error(message, code, stack) ==
  [message |-> message, code |-> code, stack |-> stack]

\* what resetOperationalData may throw: a plain error and backend errors
Errors ==
  { Error("connect ECONNREFUSED", None, "at initDatabase"),
    Error("invalid input syntax for type timestamp", Some("22007"),
          "at cleanTable"),
    Error("could not determine data type of parameter $1", Some("42P18"),
          "at tableExists"),
    Error("violates foreign key constraint", Some("23503"), "at cleanUsers") }

NoError == Error("-", None, "-")

Body(error, message) == [error |-> error, message |-> message]

NoRequest ==
  [pc |-> "free", passedAuth |-> FALSE, passedRole |-> FALSE,
   confirm |-> None, enabled |-> None, reset |-> None, status |-> 0,
   body |-> Body("-", "-"), thrown |-> None, nodeEnv |-> None,
   logged |-> None]

Arrived(passedAuth, passedRole, confirm) ==
  [NoRequest EXCEPT !.passedAuth = passedAuth, !.passedRole = passedRole,
                    !.confirm = confirm, !.enabled = envEnableAdminReset]

Replied(r, status, body) ==
  [r EXCEPT !.pc = "done", !.status = status, !.body = body]

\* ENABLE_ADMIN_RESET compared without regard to case
EnabledAnyCase(v) == v \in {Some("true"), Some("TRUE")}

\* process.env.ENABLE_ADMIN_RESET !== 'true' is false
Enabled(v) == v = Some("true")

\* authRequired turns the request away
AuthRejected(r) == Replied(r, 401, Body("-", "-"))

\* requireRole('admin') turns the request away
RoleRejected(r) == Replied(r, 403, Body("-", "-"))

\* authRequired, requireRole('admin'), requireAdminResetEnabled, then the
\* handler down to the call of resetOperationalData
Handled(r) ==
  IF ~r.passedAuth THEN AuthRejected(r)
  ELSE IF ~r.passedRole THEN RoleRejected(r)
  ELSE IF ~Enabled(r.enabled)
  THEN Replied(r, 403,
               Body("Endpoint administrativo desabilitado",
                    "O reset de dados operacionais via API está desabilitado. Use o script CLI se necessário."))
  ELSE IF r.confirm # Some("RESET_ALL_DATA")
  THEN Replied(r, 400,
               Body("Confirmação inválida",
                    "É necessário enviar { confirm: \"RESET_ALL_DATA\" } no body para executar o reset."))
  ELSE [r EXCEPT !.pc = "resetting", !.reset = Some([resetUsers |-> FALSE])]

Post ==
  /\ \E i \in Requests, passedAuth, passedRole \in BOOLEAN,
        confirm \in ConfirmValues :
       /\ req[i].pc = "free"
       /\ req' = [req EXCEPT
                    ![i] = Handled(Arrived(passedAuth, passedRole, confirm))]
  /\ UNCHANGED << resetVars, facadeVars, shareVars, selectVars, poolVars,
                  envEnableAdminReset, devVars >>

\* the reset returned: 200 with its totals
ResetReturns ==
  /\ \E i \in Requests :
       /\ req[i].pc = "resetting"
       /\ req' = [req EXCEPT
                    ![i] = Replied(req[i], 200,
                                   Body("-", "Dados operacionais resetados com sucesso"))]
  /\ UNCHANGED << resetVars, facadeVars, shareVars, selectVars, poolVars,
                  envEnableAdminReset, devVars >>

\* the response with the error's own message
DetailedBody(e) == Body("Erro ao executar reset de dados", e.message)

\* the response of the catch block
FailureBody(e) ==
  IF e.code = Some("22007")
  THEN Body("Erro de formato de data",
            "Ocorreu um erro de formato de data. A transação foi revertida automaticamente.")
  ELSE IF e.code = Some("42P18")
  THEN Body("Erro de parâmetro SQL",
            "Ocorreu um erro de parâmetro SQL. A transação foi revertida automaticamente.")
  ELSE Body("Erro ao executar reset de dados",
            "Ocorreu um erro ao resetar os dados operacionais. A transação foi revertida automaticamente.")

\* errorDetails as logged: the stack only outside production
ErrorDetails(e, nodeEnv) ==
  [error |-> e.message, code |-> e.code,
   stack |-> IF nodeEnv # Some("production") THEN Some(e.stack) ELSE None]

Caught(r, e) ==
  [Replied(r, 500, FailureBody(e)) EXCEPT
     !.thrown = Some(e), !.nodeEnv = envNodeEnv,
     !.logged = Some(ErrorDetails(e, envNodeEnv))]

\* the reset threw: the catch block logs and answers 500
ResetThrows ==
  /\ \E i \in Requests, e \in Errors :
       /\ req[i].pc = "resetting"
       /\ req' = [req EXCEPT ![i] = Caught(req[i], e)]
  /\ UNCHANGED << resetVars, facadeVars, shareVars, selectVars, poolVars,
                  envEnableAdminReset, devVars >>

\* process.env.ENABLE_ADMIN_RESET is set, cleared or changed
SetEnableAdminReset ==
  /\ \E v \in EnableValues \ {envEnableAdminReset} : envEnableAdminReset' = v
  /\ UNCHANGED << resetVars, facadeVars, shareVars, selectVars, poolVars, req, devVars >>

(***************************************************************************)
(* routes/dev.js: POST /make-me-admin, one request at a time: the gate and *)
(* the validation, the lookup, the UPDATE. Either database call may fail.  *)
(***************************************************************************)
AllowValues == {None, Some("true"), Some("false")}

\* String.prototype.toLowerCase on the tokens the model uses
Lower(tok) ==
  CASE tok = "Ana@X.com" -> "ana@x.com"
    [] tok = "Bob@x.com" -> "bob@x.com"
    [] OTHER -> tok

LowerText(text) == [k \in 1..Len(text) |-> Lower(text[k])]

\* req.body.email: absent, a number, or a string
Email(type, text) == [type |-> type, text |-> text]

EmailInputs ==
  { Email("undefined", <<>>), Email("number", <<"42">>),
    Email("string", <<>>), Email("string", <<" ">>),
    Email("string", <<"ana@x.com">>),
    Email("string", <<" ", "Ana@X.com", " ">>),
    Email("string", <<"Bob@x.com">>), Email("string", <<"zed@x.com">>) }

\* the accounts: one stored in lower case, one stored with a capital
Usuarios(role) ==
  [id \in {1, 2} |->
     IF id = 1 THEN [email |-> <<"ana@x.com">>, role |-> role]
     ELSE [email |-> <<"Bob@x.com">>, role |-> "user"]]

NoDev ==
  [pc |-> "idle", email |-> Email("undefined", <<>>), nodeEnv |-> None,
   allow |-> None, before |-> Usuarios("user"), emailTrimmed |-> <<>>,
   again |-> FALSE, user |-> None, status |-> 0, updates |-> 0,
   failed |-> "-"]

\* the gate asks for ALLOW_DEV_ADMIN alone
AllowedAnywhere(nodeEnv, allow) == allow = Some("true")

\* requireDevAdminEnabled lets the request through
DevAdminEnabled(nodeEnv, allow) ==
  nodeEnv = Some("production") /\ allow = Some("true")

\* !(!email || typeof email !== 'string' || !email.trim())
ValidEmail(email) ==
  email.type = "string" /\ email.text # <<>> /\ Trim(email.text) # <<>>

\* email.trim().toLowerCase()
EmailTrimmed(email) == LowerText(Trim(email.text))

DevArrived(email) ==
  [NoDev EXCEPT !.email = email, !.nodeEnv = envNodeEnv,
                !.allow = envAllowDevAdmin, !.before = usuarios]

DevReplied(d, status) == [d EXCEPT !.pc = "done", !.status = status]

\* the middleware and the handler down to its first await
DevHandled(d) ==
  IF ~DevAdminEnabled(d.nodeEnv, d.allow) THEN DevReplied(d, 403)
  ELSE IF ~ValidEmail(d.email) THEN DevReplied(d, 400)
  ELSE [d EXCEPT !.pc = "lookup", !.emailTrimmed = EmailTrimmed(d.email),
                 !.again = EmailTrimmed(d.email) \in promoted]

DevPost ==
  /\ dev.pc \in {"idle", "done"}
  /\ \E email \in EmailInputs : dev' = DevHandled(DevArrived(email))
  /\ UNCHANGED << resetVars, facadeVars, shareVars, selectVars, poolVars,
                  envEnableAdminReset, req, envAllowDevAdmin, usuarios,
                  promoted >>

\* SELECT ... FROM usuarios WHERE email = ? LIMIT 1
FoundUsers(emailTrimmed) ==
  {id \in DOMAIN usuarios : usuarios[id].email = emailTrimmed}

\* LIMIT 1: no row, or one of the rows found
LimitOne(ids) == IF ids = {} THEN {{}} ELSE {{id} : id \in ids}

\* the check is left out
NeverAdmin(user) == FALSE

\* user.role === 'admin'
AlreadyAdmin(user) == user.role = "admin"

\* the lookup has answered: 404, 200 for an admin, or on to the UPDATE
LookedUp(d, found) ==
  IF found = {} THEN DevReplied(d, 404)
  ELSE IF \A id \in found : AlreadyAdmin(usuarios[id])
  THEN DevReplied([d EXCEPT !.user = found], 200)
  ELSE [d EXCEPT !.pc = "update", !.user = found]

DevFailed(d, at) == DevReplied([d EXCEPT !.failed = at], 500)

DevLookup ==
  /\ dev.pc = "lookup"
  /\ \E fault \in BOOLEAN :
       IF fault
       THEN dev' = DevFailed(dev, "lookup")
       ELSE \E found \in LimitOne(FoundUsers(dev.emailTrimmed)) :
              dev' = LookedUp(dev, found)
  /\ promoted' = IF dev'.status = 200
                 THEN promoted \cup {dev.emailTrimmed} ELSE promoted
  /\ UNCHANGED << resetVars, facadeVars, shareVars, selectVars, poolVars,
                  envEnableAdminReset, req, envAllowDevAdmin, usuarios >>

\* UPDATE usuarios SET role = ? WHERE id = ?, with 'admin' and user.id
DevUpdate ==
  /\ dev.pc = "update"
  /\ \E fault \in BOOLEAN :
       IF fault
       THEN /\ dev' = DevFailed([dev EXCEPT !.updates = 1], "update")
            /\ UNCHANGED << usuarios, promoted >>
       ELSE /\ usuarios' = [id \in DOMAIN usuarios |->
                              IF id \in dev.user
                              THEN [usuarios[id] EXCEPT !.role = "admin"]
                              ELSE usuarios[id]]
            /\ dev' = DevReplied([dev EXCEPT !.updates = 1], 200)
            /\ promoted' = promoted \cup {dev.emailTrimmed}
  /\ UNCHANGED << resetVars, facadeVars, shareVars, selectVars, poolVars,
                  envEnableAdminReset, req, envAllowDevAdmin >>

\* process.env.ALLOW_DEV_ADMIN is set, cleared or changed
SetAllowDevAdmin ==
  /\ \E v \in AllowValues \ {envAllowDevAdmin} : envAllowDevAdmin' = v
  /\ UNCHANGED << resetVars, facadeVars, shareVars, selectVars, poolVars,
                  envEnableAdminReset, req, usuarios, dev, promoted >>

(***************************************************************************)
(* Callers sharing the connections of one process: two invocations of      *)
(* resetOperationalData and another caller writing through the facade.     *)
(* Each awaited call is one step. On PostgreSQL the pool has the           *)
(* connections of Slots: pool.connect() takes an idle one and keeps it,    *)
(* pool.query runs on an idle one. On SQLite there is the one connection   *)
(* of db.js.                                                               *)
(***************************************************************************)
Resets == {"a", "b"}

Writer == "w"

Slots == {"k1", "k2", "k3"}

\* sqliteDb of db.js
SqliteSlot == "k1"

WriterTable == "fabricantes"

WriteStmt ==
  Stmt(<<"INSERT", " ", "INTO", " ", WriterTable, " ", "VALUES", " ", "?">>,
       "INSERT", WriterTable, "-", FALSE, 1)

NoInv ==
  [pc |-> "idle", idx |-> 1, client |-> "-", emptied |-> {}, error |-> "-"]

NoWrite ==
  [pc |-> "idle", ok |-> FALSE, rows |-> {}, during |-> {}, held |-> {}]

NoConn == [holder |-> "-", txc |-> None]

ShareIdle ==
  /\ conns = [k \in Slots |-> NoConn]
  /\ inv = [i \in Resets |-> NoInv]
  /\ wr = NoWrite
  /\ ran = {}

SlotView(k) == IF conns[k].txc = None THEN committed ELSE TheOne(conns[k].txc)

\* every connection of the pool, checked out or not
AnySlot == Slots

\* the connections of the pool no caller has checked out
IdleSlots == {k \in Slots : conns[k].holder = "-"}

\* where a call through the facade runs: pool.query, or sqliteDb
FacadeSlots == IF isPostgres THEN IdleSlots ELSE {SqliteSlot}

\* the engine after a statement on a connection whose transaction is txc
SlotEffect(txc, st, drv, ctl) ==
  IF st.op \in TxnOps
  THEN [ok |-> drv.ok /\ ctl.ok, com |-> ctl.com, txc |-> ctl.txc,
        meta |-> drv.meta, rows |-> drv.rows, rowCount |-> drv.rowCount]
  ELSE [ok |-> drv.ok,
        com |-> IF txc = None THEN drv.data ELSE committed,
        txc |-> IF txc = None THEN None ELSE Some(drv.data),
        meta |-> drv.meta, rows |-> drv.rows, rowCount |-> drv.rowCount]

OnSlot(k, via, st) ==
  SlotEffect(conns[k].txc, st, Drive(via, SlotView(k), st),
             TxnControl(isPostgres, committed, conns[k].txc, st.op))

\* getPool() throws when there is no pool
NoPoolFor(via) == via # "client" /\ isPostgres /\ pool # "open"

SlotAnswer(k, via, st, fault) ==
  Faulty(OnSlot(k, via, st), fault \/ NoPoolFor(via))

\* the data the connection sees after the answer
After(a) == IF a.txc = None THEN a.com ELSE TheOne(a.txc)

\* the statement of caller by ran on connection k; the engine moves if it
\* succeeded, and the connection goes back to the pool when released
Ran(by, k, a, release) ==
  /\ committed' = IF a.ok THEN a.com ELSE committed
  /\ sqMeta' = IF a.ok THEN a.meta ELSE sqMeta
  /\ conns' = [conns EXCEPT
                 ![k] = [holder |-> IF release THEN "-" ELSE @.holder,
                         txc |-> IF a.ok THEN a.txc ELSE @.txc]]
  /\ ran' = ran \cup {[by |-> by, heldBy |-> conns[k].holder]}

\* process.exit(1) has ended the process
Exited == \E i \in Resets : inv[i].pc = "exited"

ShareFrame ==
  /\ UNCHANGED << envDatabaseUrl, envResetUsers, dbAdapter, tx, pc, idx,
                  client, results, totalDeleted, inflight, log, db0,
                  invocations, origError, faulted, outcome >>
  /\ UNCHANGED << facadeVars, selectVars, poolVars, routeVars >>

HasClient(i) == inv[i].client # "-"

\* if (client) client.query(...) else query(...)
ShareTxnVia(i) == IF HasClient(i) THEN "client" ELSE "query"

\* if (client && isPostgres()) client.query(...) else query(...)
ShareDeleteVia(i) == IF HasClient(i) /\ isPostgres THEN "client" ELSE "query"

SlotsVia(i, via) == IF via = "client" THEN {inv[i].client} ELSE FacadeSlots

Failed(i, st) == [inv[i] EXCEPT !.pc = "catch", !.error = st.op]

NextTable(r) ==
  [r EXCEPT !.pc = AfterTable(r.idx),
            !.idx = IF r.idx < Len(TABLES_TO_CLEAN) THEN r.idx + 1 ELSE r.idx]

\* await initDatabase(): on PostgreSQL the pool is there or is created
ShareStart(i) ==
  /\ ~Exited
  /\ inv[i].pc = "idle"
  /\ inv' = [inv EXCEPT ![i].pc = IF isPostgres THEN "connect" ELSE "begin"]
  /\ pool' = IF isPostgres THEN "open" ELSE pool
  /\ UNCHANGED << committed, sqMeta, conns, wr, ran >>
  /\ ShareFrame

\* client = await getPool().connect()
ShareConnect(i) ==
  /\ ~Exited
  /\ inv[i].pc = "connect"
  /\ IF pool # "open"
     THEN /\ inv' = [inv EXCEPT ![i].pc = "catch", ![i].error = "connect"]
          /\ UNCHANGED conns
     ELSE \E k \in IdleSlots :
            /\ conns' = [conns EXCEPT ![k].holder = i]
            /\ inv' = [inv EXCEPT ![i].pc = "begin", ![i].client = k]
  /\ UNCHANGED << committed, sqMeta, pool, wr, ran >>
  /\ ShareFrame

BeginRan(i, k, a) ==
  /\ Ran(i, k, a, FALSE)
  /\ inv' = [inv EXCEPT
               ![i] = IF a.ok THEN [@ EXCEPT !.pc = "exists"]
                      ELSE Failed(i, BeginStmt)]

ShareBegin(i) ==
  /\ ~Exited
  /\ inv[i].pc = "begin"
  /\ \E k \in SlotsVia(i, ShareTxnVia(i)) :
       BeginRan(i, k, SlotAnswer(k, ShareTxnVia(i), BeginStmt, FALSE))
  /\ UNCHANGED << pool, wr >>
  /\ ShareFrame

ExistsRan(i, k, st, a) ==
  /\ Ran(i, k, a, FALSE)
  /\ inv' = [inv EXCEPT
               ![i] = IF CheckThrows(a) THEN Failed(i, st)
                      ELSE IF ExistsAnswer(a.rows)
                      THEN [@ EXCEPT !.pc = IF ShareDeleteVia(i) = "client"
                                            THEN "count" ELSE "delete"]
                      ELSE NextTable(@)]

\* cleanTable up to the existence check
ShareExists(i) ==
  /\ ~Exited
  /\ inv[i].pc = "exists"
  /\ \E k \in FacadeSlots :
       ExistsRan(i, k, ExistsStmt(TableAt(inv[i].idx)),
                 SlotAnswer(k, "queryOne", ExistsStmt(TableAt(inv[i].idx)),
                            FALSE))
  /\ UNCHANGED << pool, wr >>
  /\ ShareFrame

CountRan(i, k, st, a) ==
  /\ Ran(i, k, a, FALSE)
  /\ inv' = [inv EXCEPT
               ![i] = IF a.ok THEN [@ EXCEPT !.pc = "delete"]
                      ELSE Failed(i, st)]

ShareCount(i) ==
  /\ ~Exited
  /\ inv[i].pc = "count"
  /\ CountRan(i, inv[i].client, CountStmt(TableAt(inv[i].idx)),
              SlotAnswer(inv[i].client, "client",
                         CountStmt(TableAt(inv[i].idx)), FALSE))
  /\ UNCHANGED << pool, wr >>
  /\ ShareFrame

Emptied(r, t, a) ==
  [r EXCEPT !.emptied = IF DeletedOf(a) > 0 THEN @ \cup {t} ELSE @]

DeleteRan(i, k, st, a) ==
  /\ Ran(i, k, a, FALSE)
  /\ inv' = [inv EXCEPT
               ![i] = IF a.ok THEN NextTable(Emptied(@, st.table, a))
                      ELSE Failed(i, st)]

\* cleanTable's delete, which may fail
ShareDelete(i) ==
  /\ ~Exited
  /\ inv[i].pc = "delete"
  /\ \E k \in SlotsVia(i, ShareDeleteVia(i)), fault \in BOOLEAN :
       DeleteRan(i, k, DeleteStmt(TableAt(inv[i].idx)),
                 SlotAnswer(k, ShareDeleteVia(i),
                            DeleteStmt(TableAt(inv[i].idx)), fault))
  /\ UNCHANGED << pool, wr >>
  /\ ShareFrame

CommitRan(i, k, a) ==
  /\ Ran(i, k, a, a.ok /\ HasClient(i))
  /\ inv' = [inv EXCEPT
               ![i] = IF a.ok THEN [@ EXCEPT !.pc = "finally"]
                      ELSE Failed(i, CommitStmt)]

\* COMMIT, then client.release() on PostgreSQL
ShareCommit(i) ==
  /\ ~Exited
  /\ inv[i].pc = "commit"
  /\ \E k \in SlotsVia(i, ShareTxnVia(i)) :
       CommitRan(i, k, SlotAnswer(k, ShareTxnVia(i), CommitStmt, FALSE))
  /\ UNCHANGED << pool, wr >>
  /\ ShareFrame

\* finally: closePool on PostgreSQL; the invocation returns
ShareFinally(i) ==
  /\ ~Exited
  /\ inv[i].pc = "finally"
  /\ pool' = IF isPostgres THEN "none" ELSE pool
  /\ inv' = [inv EXCEPT ![i].pc = "returned"]
  /\ UNCHANGED << committed, sqMeta, conns, wr, ran >>
  /\ ShareFrame

RollbackRan(i, k, a) ==
  /\ Ran(i, k, a, a.ok /\ HasClient(i))
  /\ inv' = [inv EXCEPT ![i].pc = "exit"]

\* catch: ROLLBACK on the client, or through the facade without one
ShareRollback(i) ==
  /\ ~Exited
  /\ inv[i].pc = "catch"
  /\ \E k \in SlotsVia(i, ShareTxnVia(i)) :
       RollbackRan(i, k, SlotAnswer(k, ShareTxnVia(i), RollbackStmt, FALSE))
  /\ UNCHANGED << pool, wr >>
  /\ ShareFrame

\* process.exit(1): the process ends with all its callers, its connections
\* close and the engine drops what they had not committed
ShareExit(i) ==
  /\ ~Exited
  /\ inv[i].pc = "exit"
  /\ inv' = [inv EXCEPT ![i].pc = "exited"]
  /\ conns' = [k \in Slots |-> [conns[k] EXCEPT !.txc = None]]
  /\ UNCHANGED << committed, sqMeta, pool, wr, ran >>
  /\ ShareFrame

InFlight(i) == inv[i].pc \notin {"idle", "returned", "exited"}

Written(k, a) ==
  [pc |-> "done", ok |-> a.ok,
   rows |-> IF a.ok
            THEN After(a).rows[WriterTable] \ SlotView(k).rows[WriterTable]
            ELSE {},
   during |-> {i \in Resets : InFlight(i)},
   held |-> {i \in Resets : \E c \in Slots : conns[c].holder = i}]

WriteRan(k, a) ==
  /\ Ran(Writer, k, a, FALSE)
  /\ wr' = Written(k, a)

\* another caller inserts a row through the facade's query
ShareWrite ==
  /\ ~Exited
  /\ wr.pc = "idle"
  /\ \E k \in FacadeSlots :
       WriteRan(k, SlotAnswer(k, "query", WriteStmt, FALSE))
  /\ UNCHANGED << pool, inv >>
  /\ ShareFrame

(***************************************************************************)
(* Specifications.                                                         *)
(***************************************************************************)
SelectIdle ==
  /\ pgQuery = FALSE
  /\ sqliteDb = [m \in Modules |-> FALSE]
  /\ initPc = "idle"
  /\ usePostgres = None
  /\ returned = "-"
  /\ kindRead = NoRead
  /\ dataCall = NoCall
  /\ poolInfo = NoPool
  /\ lifecycle = NoLifecycle
  /\ closers = [c \in Closers |-> "idle"]
  /\ envEnableAdminReset = None
  /\ req = [i \in Requests |-> NoRequest]
  /\ dev = NoDev
  /\ promoted = {}

DevIdle ==
  /\ envAllowDevAdmin = None
  /\ usuarios = Usuarios("user")
  /\ ShareIdle

FacadeIdle ==
  /\ fData = [pg |-> FacadeFixture(0), sq |-> FacadeFixture(0)]
  /\ fMeta = [lastID |-> 0, changes |-> 0]
  /\ fStmt = NoStmt
  /\ fCall = "-"
  /\ fSame = TRUE
  /\ fRes = [pg |-> NoResult, sq |-> NoResult]
  /\ fCalls = 0
  /\ fPrev = [pg |-> FacadeFixture(0), sq |-> FacadeFixture(0),
              meta |-> [lastID |-> 0, changes |-> 0]]
  /\ fSent = [pg |-> <<>>, sq |-> <<>>]

ResetIdle ==
  /\ dbAdapter = "none"
  /\ pool = "none"
  /\ tx = [c \in Conns |-> None]
  /\ sqMeta = [lastID |-> 0, changes |-> 0]
  /\ pc = "idle"
  /\ idx = 1
  /\ client = "none"
  /\ results = <<>>
  /\ totalDeleted = 0
  /\ inflight = {}
  /\ log = <<>>
  /\ db0 = committed
  /\ invocations = 0
  /\ origError = "-"
  /\ faulted = FALSE
  /\ outcome = Running

Init ==
  /\ envDatabaseUrl \in EnvValues
  /\ envResetUsers \in BOOLEAN
  /\ committed \in Fixtures
  /\ ResetIdle
  /\ FacadeIdle
  /\ SelectIdle
  /\ envNodeEnv = None
  /\ DevIdle

Next ==
  \/ StartInvocation
  \/ InitDatabase
  \/ Connect
  \/ IssueBegin
  \/ CompleteBegin
  \/ IssueExists
  \/ CompleteExists
  \/ IssueCount
  \/ CompleteCount
  \/ IssueDelete
  \/ CompleteDelete
  \/ IssueUsersExists
  \/ CompleteUsersExists
  \/ IssueUsersDelete
  \/ CompleteUsersDelete
  \/ IssueCommit
  \/ CompleteCommit
  \/ Summary
  \/ Finally
  \/ IssueRollback
  \/ CompleteRollback
  \/ ProcessExit
  \/ Rejected

Spec == Init /\ [][Next]_vars

FacadeInit ==
  /\ envDatabaseUrl = None
  /\ envNodeEnv = None
  /\ SelectIdle
  /\ DevIdle
  /\ envResetUsers = FALSE
  /\ committed = Fixture({}, {}, 0, {})
  /\ ResetIdle
  /\ \E n \in 0..MaxRows :
       fData = [pg |-> FacadeFixture(n), sq |-> FacadeFixture(n)]
  /\ fMeta = [lastID |-> 0, changes |-> 0]
  /\ fStmt = NoStmt
  /\ fCall = "-"
  /\ fSame = TRUE
  /\ fRes = [pg |-> NoResult, sq |-> NoResult]
  /\ fCalls = 0
  /\ fPrev = [pg |-> fData.pg, sq |-> fData.sq, meta |-> fMeta]
  /\ fSent = [pg |-> <<>>, sq |-> <<>>]

FacadeNext == FacadeQuery \/ FacadeQueryOne \/ FacadeExecute

SpecFacade == FacadeInit /\ [][FacadeNext]_vars

SelectInit ==
  /\ envDatabaseUrl \in EnvValues
  /\ envNodeEnv = None
  /\ envResetUsers = FALSE
  /\ committed = Fixture({}, {}, 0, {})
  /\ ResetIdle
  /\ FacadeIdle
  /\ SelectIdle
  /\ DevIdle

SelectNext ==
  \/ SetEnv
  \/ SelectBackend
  \/ InitPostgres
  \/ ReadKind
  \/ ClosePool
  \/ AdapterCall
  \/ DbCall
  \/ HelperCall

SpecSelect == SelectInit /\ [][SelectNext]_vars

PoolInit ==
  /\ envDatabaseUrl \in EnvValues
  /\ envNodeEnv \in NodeEnvValues
  /\ envResetUsers = FALSE
  /\ committed = Fixture({}, {}, 0, {})
  /\ ResetIdle
  /\ FacadeIdle
  /\ SelectIdle
  /\ DevIdle

PoolNext ==
  \/ SetEnv
  \/ SetNodeEnv
  \/ initPostgres
  \/ Probe
  \/ closePool

SpecPool == PoolInit /\ [][PoolNext]_vars

OverlapNext ==
  \/ SetEnv
  \/ initPostgres
  \/ Probe
  \/ \E c \in Closers : closePoolCall(c) \/ closePoolResume(c)

SpecOverlap == PoolInit /\ [][OverlapNext]_vars

AdminInit ==
  /\ envDatabaseUrl = None
  /\ envNodeEnv \in NodeEnvValues
  /\ envResetUsers = FALSE
  /\ committed = Fixture({}, {}, 0, {})
  /\ ResetIdle
  /\ FacadeIdle
  /\ SelectIdle
  /\ DevIdle

AdminNext ==
  \/ SetNodeEnv
  \/ SetEnableAdminReset
  \/ Post
  \/ ResetReturns
  \/ ResetThrows

SpecAdmin == AdminInit /\ [][AdminNext]_vars

DevInit ==
  /\ envDatabaseUrl = None
  /\ envNodeEnv \in NodeEnvValues
  /\ envAllowDevAdmin \in AllowValues
  /\ envResetUsers = FALSE
  /\ committed = Fixture({}, {}, 0, {})
  /\ ResetIdle
  /\ FacadeIdle
  /\ SelectIdle
  /\ ShareIdle
  /\ \E role \in {"user", "admin"} : usuarios = Usuarios(role)

DevNext ==
  \/ SetNodeEnv
  \/ SetAllowDevAdmin
  \/ DevPost
  \/ DevLookup
  \/ DevUpdate

SpecDev == DevInit /\ [][DevNext]_vars

ShareInit ==
  /\ envDatabaseUrl \in {None, Some("postgres://db")}
  /\ dbAdapter = IF Truthy(envDatabaseUrl) THEN "postgres" ELSE "sqlite"
  /\ pool = "none"
  /\ envResetUsers = FALSE
  /\ envNodeEnv = None
  /\ committed = Fixture({}, Range(TABLES_TO_CLEAN), 0, {})
  /\ tx = [c \in Conns |-> None]
  /\ sqMeta = [lastID |-> 0, changes |-> 0]
  /\ pc = "idle"
  /\ idx = 1
  /\ client = "none"
  /\ results = <<>>
  /\ totalDeleted = 0
  /\ inflight = {}
  /\ log = <<>>
  /\ db0 = committed
  /\ invocations = 0
  /\ origError = "-"
  /\ faulted = FALSE
  /\ outcome = Running
  /\ FacadeIdle
  /\ SelectIdle
  /\ DevIdle

ShareNext ==
  \/ \E i \in Resets :
       \/ ShareStart(i)
       \/ ShareConnect(i)
       \/ ShareBegin(i)
       \/ ShareExists(i)
       \/ ShareCount(i)
       \/ ShareDelete(i)
       \/ ShareCommit(i)
       \/ ShareFinally(i)
       \/ ShareRollback(i)
       \/ ShareExit(i)
  \/ ShareWrite

SpecShare == ShareInit /\ [][ShareNext]_vars


(***************************************************************************)
(* Properties of the reset.                                                *)
(***************************************************************************)
Ended == pc = "dead"

Committed == pc \in {"summary", "finally", "returned"}

Reported == pc \in {"finally", "returned"}

Events == Range(log)

ListTables == Range(TABLES_TO_CLEAN)

DeleteEvents(ev, t) ==
  {j \in 1..Len(log) :
     log[j].ev = ev /\ log[j].op = "DELETE" /\ log[j].table = t}

Checked(t) ==
  \E e \in Events :
    e.ev = "done" /\ e.op \in {"EXISTS", "CATALOG"} /\ e.table = t

\* the table's existence check has answered and its delete, if one was
\* issued, has completed
Completed(t) ==
  /\ Checked(t)
  /\ Cardinality(DeleteEvents("issue", t)) = Cardinality(DeleteEvents("done", t))

JustIssuedDelete ==
  /\ log # <<>>
  /\ log[Len(log)].ev = "issue"
  /\ log[Len(log)].op = "DELETE"

Removed(t) == Cardinality(db0.rows[t]) - Cardinality(committed.rows[t])

KeptUsers ==
  {r \in db0.rows[UsersTable] : r.role = AdminRole \/ r.email = AdminEmail}

EntriesFor(t) == {k \in 1..Len(results) : results[k].table = t}

\* nothing the reset is asked to delete is in the database it starts from
EmptyAtStart ==
  /\ \A t \in ListTables : db0.rows[t] = {}
  /\ envResetUsers => db0.rows[UsersTable] = KeptUsers

\* C1: when a statement of the reset fails before COMMIT, then once the
\* invocation has ended every table holds exactly the rows it held when the
\* invocation started, on PostgreSQL and on SQLite.
C1_Atomicity ==
  (Ended /\ origError \notin {"-", "COMMIT"}) =>
    \A t \in AllTables : committed.rows[t] = db0.rows[t]

\* a delete failed after a table had been emptied, and the invocation ended
C1_Witness ==
  /\ Ended
  /\ origError = "DELETE"
  /\ isPostgres
  /\ \E k \in 1..Len(results) : results[k].deleted > 0
  /\ \E t \in ListTables : db0.rows[t] # {}

\* C2: the tables are deleted in the order of the list and one after
\* another: when the delete of the table at position k is issued, the
\* existence check and the delete of every table before it have completed,
\* no delete of a later table has been issued, and at most one call is in
\* flight.
C2_Sequential ==
  /\ Cardinality(inflight) <= 1
  /\ (JustIssuedDelete /\ log[Len(log)].table \in ListTables) =>
       /\ \A i \in 1..(IndexOf(log[Len(log)].table) - 1) :
            Completed(TABLES_TO_CLEAN[i])
       /\ \A i \in (IndexOf(log[Len(log)].table) + 1)..Len(TABLES_TO_CLEAN) :
            DeleteEvents("issue", TABLES_TO_CLEAN[i]) = {}
       /\ Checked(log[Len(log)].table)
  /\ (JustIssuedDelete /\ log[Len(log)].table = UsersTable) =>
       \A i \in 1..Len(TABLES_TO_CLEAN) : Completed(TABLES_TO_CLEAN[i])

\* the delete of the last table is in flight after seven deletes completed
C2_Witness ==
  /\ JustIssuedDelete
  /\ log[Len(log)].table = TABLES_TO_CLEAN[Len(TABLES_TO_CLEAN)]
  /\ inflight # {}
  /\ \A i \in 1..(Len(TABLES_TO_CLEAN) - 1) :
       DeleteEvents("done", TABLES_TO_CLEAN[i]) # {}

\* C3: a report entry is skipped exactly when its table was missing at the
\* existence check; a skipped entry has deleted = 0 and no delete was issued
\* for its table; skipping is no error, and the reset goes on to the
\* remaining tables of the list.
C3_Skipped ==
  /\ \A k \in 1..Len(results) :
       /\ results[k].skipped <=> ~db0.exists[results[k].table]
       /\ results[k].skipped =>
            /\ results[k].deleted = 0
            /\ \A e \in Events :
                 ~(e.op = "DELETE" /\ e.table = results[k].table)
  /\ faulted \/ origError = "-"
  /\ (Committed /\ ~faulted) =>
       \A t \in ListTables : Checked(t) /\ EntriesFor(t) # {}

\* a table in the middle of the list was missing and the tables after it
\* were emptied
C3_Witness ==
  /\ pc = "returned"
  /\ \E k \in 2..(Len(TABLES_TO_CLEAN) - 1) :
       /\ results[k].skipped
       /\ ~results[k + 1].skipped
       /\ results[k + 1].deleted > 0
       /\ committed.rows[results[k + 1].table] = {}

C5_Preserved ==
  ~envResetUsers =>
    /\ \A e \in Events : e.op = "DELETE" => e.table \in ListTables
    /\ \A t \in MasterTables \cup {UsersTable} :
         /\ committed.rows[t] = db0.rows[t]
         /\ \A c \in Conns :
              tx[c] # None => TheOne(tx[c]).rows[t] = db0.rows[t]

\* a reset without resetUsers emptied the operational tables and returned
\* with deletable users still there
C5_Witness ==
  /\ pc = "returned"
  /\ ~envResetUsers
  /\ totalDeleted > 0
  /\ committed.rows[UsersTable] = UserRows
  /\ \A t \in MasterTables : committed.rows[t] # {}

\* C6: a committed reset with resetUsers = true has removed from the users'
\* table exactly the rows whose role is not 'admin' and whose email is not
\* 'admin@troia.com'; the outcome is the one entry of the report under the
\* key 'usuarios'.
C6_Users ==
  (Committed /\ envResetUsers) =>
    /\ committed.rows[UsersTable] = KeptUsers
    /\ Cardinality(EntriesFor("usuarios")) = 1
    /\ results[Len(results)] =
         Entry("usuarios",
               Cardinality(db0.rows[UsersTable]) - Cardinality(KeptUsers),
               ~db0.exists[UsersTable])

\* of the four kinds of account, the one that is neither was removed
C6_Witness ==
  /\ pc = "returned"
  /\ envResetUsers
  /\ db0.rows[UsersTable] = UserRows
  /\ Cardinality(committed.rows[UsersTable]) = 3
  /\ results[Len(results)].deleted = 1

\* C7: on an empty dataset every invocation in a row leaves the database
\* as it is, ends in no error unless a call fails, and reports
\* totalDeleted = 0.
C7_Idempotent ==
  (invocations >= 1 /\ EmptyAtStart) =>
    /\ committed = db0
    /\ ~faulted => origError = "-" /\ ~Ended
    /\ Reported => totalDeleted = 0

\* the second invocation in a row on an empty dataset has returned
C7_Witness ==
  /\ invocations >= 2
  /\ pc = "returned"
  /\ EmptyAtStart
  /\ totalDeleted = 0
  /\ Len(results) >= Len(TABLES_TO_CLEAN)

\* C8: a statement of the transaction failed and the invocation has ended:
\* the caller of resetOperationalData gets the original error.
C8_Reraised ==
  (Ended /\ origError \notin {"-", "initDatabase"}) =>
    outcome = [how |-> "rejected", raised |-> origError]

(***************************************************************************)
(* Properties of the facade.                                               *)
(***************************************************************************)
BothAnswered == fCall # "-" /\ fSame /\ fRes.pg.ok /\ fRes.sq.ok

\* C9: the same neutral statement on the same data gives the same rows,
\* rowCount and insertId from query, and the same row or null from
\* queryOne, on PostgreSQL and on SQLite.
C9_Transparent == BothAnswered => fRes.pg = fRes.sq

PlainInsert ==
  /\ fCall = "query"
  /\ fStmt.op = "INSERT"
  /\ ~Includes(fStmt.text, "RETURNING")
  /\ fRes.pg.ok /\ fRes.sq.ok

\* C10: an INSERT without RETURNING gives, on both backends, the generated
\* key as insertId when it inserts one row, and null when it inserts none
\* or more than one.
C10_InsertId ==
  PlainInsert =>
    /\ fStmt.n = 1 =>
         /\ fRes.pg.res.insertId = Some(fData.pg.seq[FacadeTable])
         /\ fRes.sq.res.insertId = Some(fData.sq.seq[FacadeTable])
    /\ fStmt.n # 1 =>
         /\ fRes.pg.res.insertId = None
         /\ fRes.sq.res.insertId = None


Backends == {"pg", "sq"}

ShapedCall == fCall \in {"query", "execute"}

\* C11: through query and execute, on both backends, insertId is null for
\* every statement that is not an INSERT of exactly one row.
C11_NullInsertId ==
  \A b \in Backends :
    (ShapedCall /\ fRes[b].ok /\ ~(fStmt.op = "INSERT" /\ fStmt.n = 1)) =>
      fRes[b].res.insertId = None

\* C12: in every successful result rowCount is the length of rows when the
\* statement is a read, however the read is spelled, and the number of rows
\* affected when it is a write.
C12_RowCount ==
  \A b \in Backends :
    (ShapedCall /\ fRes[b].ok) =>
      fRes[b].res.rowCount =
        (CASE fStmt.op = "SELECT" -> Len(fRes[b].res.rows)
           [] fStmt.op = "INSERT" -> fStmt.n
           [] OTHER -> Cardinality(Hit(fPrev[b], fStmt)))

\* C13: queryOne sends one statement to the backend and gives the first
\* row of the rows query gives for the same input, or null if there is none.
C13_QueryOne ==
  \A b \in Backends :
    (fCall = "queryOne" /\ fRes[b].ok
       /\ Query(b = "pg", fPrev[b], fPrev.meta, fStmt).ok) =>
      /\ Len(fSent[b]) = 1
      /\ fRes[b].row =
           FirstRow(Query(b = "pg", fPrev[b], fPrev.meta, fStmt).res.rows)


AsQuery(b) == Query(b = "pg", fPrev[b], fPrev.meta, fStmt)

\* C14: execute sends the backend the statement query sends and gives the
\* result query gives, for the same statement, parameters and data, on
\* both backends.
C14_ExecuteIsQuery ==
  \A b \in Backends :
    fCall = "execute" =>
      /\ fSent[b] = AsQuery(b).sent
      /\ fRes[b] = [ok |-> AsQuery(b).ok, res |-> AsQuery(b).res, row |-> None]
      /\ fData[b] = AsQuery(b).data

\* execute inserted one row through an INSERT it completed with RETURNING id
C14_Witness ==
  /\ fCall = "execute"
  /\ fStmt.op = "INSERT"
  /\ fStmt.n = 1
  /\ ~Includes(fStmt.text, "RETURNING")
  /\ Includes(fSent.pg[1].text, "RETURNING")
  /\ fRes.pg.res.insertId # None
  /\ fRes.sq.res.insertId # None
  /\ fRes.pg.res.rows # fRes.sq.res.rows

\* the k-th token of the text is its j-th '?'
Numbered(text, k) ==
  "$" \o ToString(Cardinality({i \in 1..k : text[i] = "?"}))

\* C15: on PostgreSQL the k-th '?' of the text, from the left, is sent as
\* $k, the rest of the text is sent as it is (up to the RETURNING id the
\* facade adds to an INSERT) and the parameter array is handed on as it
\* came; on SQLite text and parameters are sent unchanged.
C15_Placeholders ==
  fCall # "-" =>
    /\ fSent.sq = <<[text |-> fStmt.text, params |-> fStmt.params]>>
    /\ Len(fSent.pg) = 1
    /\ fSent.pg[1].params = fStmt.params
    /\ \A k \in 1..Len(fStmt.text) :
         fStmt.text[k] = "?" =>
           /\ k <= Len(fSent.pg[1].text)
           /\ fSent.pg[1].text[k] = Numbered(fStmt.text, k)
    /\ (fCall = "queryOne" \/ fStmt.op # "INSERT") =>
         /\ Len(fSent.pg[1].text) = Len(fStmt.text)
         /\ \A k \in 1..Len(fStmt.text) :
              fStmt.text[k] # "?" => fSent.pg[1].text[k] = fStmt.text[k]

\* a statement with three placeholders went to both backends
C15_Witness ==
  /\ fCall = "query"
  /\ Len(fStmt.params) = 3
  /\ fSent.pg[1].params = <<"p1", "p2", "p3">>
  /\ Includes(fSent.pg[1].text, "$1")
  /\ Includes(fSent.pg[1].text, "$2")
  /\ Includes(fSent.pg[1].text, "$3")
  /\ ~Includes(fSent.pg[1].text, "?")
  /\ Includes(fSent.sq[1].text, "?")

\* an INSERT, whatever its case and the white space around it, that asks
\* for no returned identifier yet
WantsReturning(text) ==
  /\ StartsWith(UpperText(Trim(text)), "INSERT")
  /\ ReturningClauses(text) = 0

\* C16: on PostgreSQL query and execute send the statement with
\* RETURNING id added before its trailing terminator exactly when it is an
\* INSERT that asks for no returned identifier; every other statement is
\* sent as converted, and none with two RETURNING clauses.
C16_Returning ==
  (ShapedCall /\ fSent.pg # <<>>) =>
    /\ fSent.pg[1].text =
         (IF WantsReturning(fStmt.text)
          THEN StripTerminator(ConvertParams(TRUE, fStmt.text))
                 \o <<" ", "RETURNING", " ", "id">>
          ELSE ConvertParams(TRUE, fStmt.text))
    /\ ReturningClauses(fSent.pg[1].text) <= 1


(***************************************************************************)
(* Properties of the backend selection and of the connection handles.      *)
(***************************************************************************)
\* C17: an initDatabase call that returns gives postgres when DATABASE_URL,
\* as the call read it, was present and not empty, and sqlite otherwise;
\* the kind it leaves behind is the one it returned.
C17_Selection ==
  returned # "-" =>
    /\ \A url \in usePostgres :
         returned = (IF url \notin {None, Some("")}
                     THEN "postgres" ELSE "sqlite")
    /\ dbAdapter = returned

\* initDatabase returned with DATABASE_URL present and empty
C17_Witness ==
  /\ usePostgres = Some(Some(""))
  /\ returned = "sqlite"
  /\ isSqlite

\* C18: once the kind is determined, no step changes it: initDatabase
\* returns it again, and getDbAdapter, isPostgres and isSqlite keep
\* answering it, whatever DATABASE_URL has become.
C18_KindFixed ==
  [][dbAdapter # "none" =>
       /\ dbAdapter' = dbAdapter
       /\ (returned' # "-" => returned' = dbAdapter)
       /\ (kindRead' # kindRead => kindRead'.getDbAdapter = dbAdapter)]_vars

\* C19: there is at most one PostgreSQL pool, and the data-access modules
\* hold at most one open SQLite connection between them.
C19_OneHandle ==
  /\ Cardinality({p \in {pool} : p = "open"}) <= 1
  /\ Cardinality({m \in Modules : sqliteDb[m]}) <= 1

\* the call was made before initDatabase had determined a backend, or on
\* PostgreSQL with no pool
NoHandle(c) ==
  \/ c.dbAdapter = "none"
  \/ c.dbAdapter = "postgres" /\ c.pool = "none"

\* C20: a data call made while no handle is acquired ends in the
\* not-initialized error and hands no statement to a backend.
C20_NotInitialized ==
  (dataCall # NoCall /\ NoHandle(dataCall)) =>
    /\ dataCall.error = "NotInitialized"
    /\ dataCall.reached = "-"


(***************************************************************************)
(* Properties of the pool.                                                 *)
(***************************************************************************)
PoolReturned == lifecycle.end \in {"created", "kept"}

\* C21: an initPostgres call returns the pool only when a probe of that
\* pool has succeeded, and fails when DATABASE_URL is absent, whatever
\* calls came before it or are still awaiting their probe.
C21_ProbedPool ==
  lifecycle.op = "initPostgres" =>
    /\ PoolReturned => (pool = "open" /\ poolInfo.probed)
    /\ lifecycle.url = None => ~PoolReturned

\* the step is a closePool call
Closing == lifecycle'.op = "closePool" /\ lifecycle' # lifecycle

ExplicitNonProduction == {Some("development")}

\* C28: a pool is created with ssl unless NODE_ENV, as it was then,
\* explicitly selected a non-production mode.
C28_Tls ==
  pool = "open" => (poolInfo.ssl <=> poolInfo.nodeEnv \notin ExplicitNonProduction)


(***************************************************************************)
(* Properties of the reset's transaction.                                  *)
(***************************************************************************)
IssuedAt(j, ops) == log[j].ev = "issue" /\ log[j].op \in ops

\* C29: on PostgreSQL every statement the invocation issues, from BEGIN to
\* COMMIT or ROLLBACK, goes to the client checked out for the transaction.
C29_OneConnection ==
  isPostgres =>
    \A b \in 1..Len(log) :
      IssuedAt(b, {"BEGIN"}) =>
        \A j \in b..Len(log) : log[j].ev = "issue" => log[j].conn = "client"

\* before position j the table's existence check had answered and every
\* delete issued on it had completed
ProcessedBefore(t, j) ==
  /\ \E i \in 1..(j - 1) :
       /\ log[i].ev = "done"
       /\ log[i].op \in {"EXISTS", "CATALOG"}
       /\ log[i].table = t
  /\ Cardinality({i \in DeleteEvents("issue", t) : i < j})
       = Cardinality({i \in DeleteEvents("done", t) : i < j})

ToProcess == ListTables \cup (IF envResetUsers THEN {UsersTable} ELSE {})

\* C30: BEGIN is issued before any existence check, count or delete;
\* COMMIT is issued only when no call has failed and every table of the
\* list, and the users when requested, has been processed; after COMMIT
\* or ROLLBACK no delete is issued.
C30_Order ==
  \A j \in 1..Len(log) :
    /\ IssuedAt(j, {"EXISTS", "CATALOG", "COUNT", "DELETE"}) =>
         \E b \in 1..(j - 1) : IssuedAt(b, {"BEGIN"})
    /\ IssuedAt(j, {"COMMIT"}) =>
         /\ \A i \in 1..(j - 1) : log[i].ev # "fail"
         /\ \A t \in ToProcess : ProcessedBefore(t, j)
    /\ IssuedAt(j, {"COMMIT", "ROLLBACK"}) =>
         \A k \in (j + 1)..Len(log) : ~IssuedAt(k, {"DELETE"})

\* an invocation on PostgreSQL that purged users has committed
C30_Witness ==
  /\ pc = "returned"
  /\ isPostgres
  /\ envResetUsers
  /\ \E j \in 1..Len(log) : log[j].ev = "done" /\ log[j].op = "COMMIT"
  /\ DeleteEvents("done", UsersTable) # {}
  /\ \A t \in ListTables : DeleteEvents("done", t) # {}


(***************************************************************************)
(* Properties of the administrative endpoint.                              *)
(***************************************************************************)
Qualifies(r) ==
  /\ r.passedAuth
  /\ r.passedRole
  /\ r.enabled = Some("true")
  /\ r.confirm = Some("RESET_ALL_DATA")

\* C23: the endpoint starts a reset exactly for a request that passed
\* authentication and the admin check with ENABLE_ADMIN_RESET 'true' and
\* confirm 'RESET_ALL_DATA', always with resetUsers false; any other
\* request is answered 401, 403 or 400 with no reset started.
C23_Gate ==
  \A i \in Requests :
    req[i].pc # "free" =>
      /\ req[i].reset # None <=> Qualifies(req[i])
      /\ req[i].reset \in {None, Some([resetUsers |-> FALSE])}
      /\ req[i].reset = None =>
           (req[i].pc = "done" /\ req[i].status \in {401, 403, 400})

\* one request started a reset while another, with the flag spelled TRUE,
\* was turned away
C23_Witness ==
  /\ req["r1"].pc = "resetting"
  /\ req["r1"].reset = Some([resetUsers |-> FALSE])
  /\ req["r2"].pc = "done"
  /\ req["r2"].passedAuth
  /\ req["r2"].passedRole
  /\ req["r2"].enabled = Some("TRUE")
  /\ req["r2"].status = 403

\* C24: at most one reset started through the endpoint is running.
C24_OneInFlight ==
  Cardinality({i \in Requests : req[i].pc = "resetting"}) <= 1

Details(e) == {e.message, e.stack} \cup e.code

OfExistingUser(d) ==
  \E id \in DOMAIN d.before :
    LowerText(d.before[id].email) = LowerText(Trim(d.email.text))

Conditions(d) ==
  /\ d.nodeEnv = Some("production")
  /\ d.allow = Some("true")
  /\ d.email.type = "string"
  /\ Trim(d.email.text) # <<>>
  /\ OfExistingUser(d)

\* C26: a request changes a user row only with NODE_ENV 'production',
\* ALLOW_DEV_ADMIN 'true' and the non-empty email of an existing user in
\* its body; any other request leaves every row as it was and, when no
\* database call failed, is answered 403, 400 or 404.
C26_OnlyWhen ==
  dev.pc # "idle" =>
    /\ usuarios # dev.before => (Conditions(dev) /\ dev.pc = "done")
    /\ (dev.pc = "done" /\ ~Conditions(dev)) =>
         /\ usuarios = dev.before
         /\ dev.updates = 0
         /\ dev.failed = "-" => dev.status \in {403, 400, 404}

\* a request was turned away with 404 for an unknown email after an
\* earlier one had promoted a user
C26_Witness ==
  /\ dev.pc = "done"
  /\ dev.status = 404
  /\ dev.email = Email("string", <<"zed@x.com">>)
  /\ usuarios[1].role = "admin"
  /\ <<"ana@x.com">> \in promoted

\* C27: once a call has succeeded for an email, a further call for it that
\* passes the gate and meets no database failure is answered 200, issues
\* no UPDATE, finds the user an admin and leaves every row as it was.
C27_Idempotent ==
  (dev.pc = "done" /\ dev.again /\ dev.failed = "-") =>
    /\ dev.status = 200
    /\ dev.updates = 0
    /\ usuarios = dev.before
    /\ \A id \in dev.user : usuarios[id].role = "admin"
    /\ dev.user # None

\* a second call for an email, spelled differently, after the UPDATE of
\* the first
C27_Witness ==
  /\ dev.pc = "done"
  /\ dev.again
  /\ dev.status = 200
  /\ dev.email = Email("string", <<" ", "Ana@X.com", " ">>)
  /\ dev.before = Usuarios("admin")
  /\ dev.updates = 0

(***************************************************************************)
(* Properties of the reset's resources and failures.                       *)
(***************************************************************************)
HeldClient == isPostgres /\ client # "none"

\* C31: when an invocation on PostgreSQL that checked out a client leaves
\* its try, catch or commit path, the client has been released.
C31_Released ==
  (HeldClient /\ pc \in {"summary", "finally", "returned", "exit", "dead"}) =>
    client = "released"

CheckFailed(t) ==
  \E e \in Events :
    e.ev = "fail" /\ e.op \in {"EXISTS", "CATALOG"} /\ e.table = t

RollbackIssued == \E j \in 1..Len(log) : IssuedAt(j, {"ROLLBACK"})

\* C33: when the existence check of a table fails, no entry is recorded for
\* the table, the invocation does not commit but fails with the check's
\* error, ROLLBACK is issued and, once the invocation has ended, every table
\* holds the rows it held at the start; an entry is skipped only when the
\* check of its table answered and the table is absent.
C33_CheckFailed ==
  /\ \A t \in AllTables :
       CheckFailed(t) =>
         /\ EntriesFor(t) = {}
         /\ ~Committed
         /\ ~(\E j \in 1..Len(log) : IssuedAt(j, {"COMMIT"}))
         /\ pc \in {"catch", "rollback_w", "exit", "dead"}
         /\ origError \in {"EXISTS", "CATALOG"}
         /\ pc \in {"rollback_w", "exit", "dead"} => RollbackIssued
         /\ Ended => \A u \in AllTables : committed.rows[u] = db0.rows[u]
  /\ \A k \in 1..Len(results) :
       results[k].skipped =>
         Checked(results[k].table) /\ ~db0.exists[results[k].table]

\* the check of a table failed after earlier tables had been emptied, and
\* the invocation ended with their rows back
C33_Witness ==
  /\ Ended
  /\ \E k \in 2..Len(TABLES_TO_CLEAN) : CheckFailed(TABLES_TO_CLEAN[k])
  /\ \E k \in 1..Len(results) : results[k].deleted > 0
  /\ \E t \in ListTables : db0.rows[t] # {}

\* C35: ROLLBACK is issued only on a connection on which a BEGIN of the
\* same invocation had succeeded.
C35_RollbackAfterBegin ==
  \A j \in 1..Len(log) :
    IssuedAt(j, {"ROLLBACK"}) =>
      \E b \in 1..(j - 1) :
        log[b].ev = "done" /\ log[b].op = "BEGIN" /\ log[b].conn = log[j].conn

\* init.js: FOREIGN KEY(...) REFERENCES ..., as << dependent, referent >>
ForeignKeys ==
  { << "veiculos", "proprietarios" >>, << "manutencoes", "veiculos" >> }

\* C34: when the delete of a table of the list is issued, no table that
\* references it and comes later in the list holds rows.
C34_DependentsFirst ==
  (JustIssuedDelete /\ log[Len(log)].table \in ListTables) =>
    \A fk \in ForeignKeys :
      ( /\ fk[2] = log[Len(log)].table
        /\ fk[1] \in ListTables
        /\ IndexOf(fk[1]) > IndexOf(fk[2]) ) =>
        View(log[Len(log)].conn).rows[fk[1]] = {}

C36_Isolated ==
  isSqlite =>
    \A i \in Resets :
      /\ inv[i].pc \notin {"catch", "exit", "exited"} =>
           \A t \in inv[i].emptied : SlotView(SqliteSlot).rows[t] = {}
      /\ inv[i].error # "COMMIT"
      /\ inv[i].pc = "returned" =>
           \A t \in inv[i].emptied : committed.rows[t] = {}

\* C37: on SQLite a write that another caller made through the facade
\* while a reset was in flight, and that succeeded, is still there after
\* that reset's ROLLBACK.
C37_WriteKept ==
  ( /\ isSqlite
    /\ wr.pc = "done"
    /\ wr.ok
    /\ \E i \in wr.during : inv[i].pc = "exit" ) =>
    wr.rows \subseteq SlotView(SqliteSlot).rows[WriterTable]

(***************************************************************************)
(* Properties of the pool's probe and of overlapping closePool calls.      *)
(***************************************************************************)
\* C38: once the probe of initPostgres has ended, the client it checked
\* out, if any, has been released.
C38_ProbeReleased ==
  (pool = "open" /\ ~poolInfo.probing) => poolInfo.probeClient # "held"

\* C39: pool.end() is invoked at most once on a pool, and initPostgres
\* returns no pool on which pool.end() has been invoked.
C39_EndedOnce ==
  /\ poolInfo.ends <= 1
  /\ ~( /\ lifecycle.op = "initPostgres"
        /\ lifecycle.end \in {"kept", "created"}
        /\ lifecycle.ending )

=============================================================================
